---------------------------- MODULE Spec2Model ----------------------------
(***************************************************************************)
(* Model of where/writers/_gnss.py: get_grc_csv_header and                 *)
(* get_grc_csv_row, the formatter of one row of the GRC CSV report.        *)
(*                                                                         *)
(* A Python str is modelled as the sequence of its characters, each a      *)
(* one-character string, so that len(), startswith(), replace(), upper(),  *)
(* strptime() and the f-string formatting are computed character by        *)
(* character.  The one non-ASCII character of the source, U+2264           *)
(* (less-than-or-equal, in target_def), is written as the single element   *)
(* "<=".                                                                   *)
(***************************************************************************)
EXTENDS Integers, Sequences, FiniteSets, TLC

-----------------------------------------------------------------------------
(* Python str and dict primitives used by the code.                         *)

\* The empty str "".
EmptyStr == << >>

LowerCase == <<"a", "b", "c", "d", "e", "f", "g", "h", "i", "j", "k", "l", "m",
               "n", "o", "p", "q", "r", "s", "t", "u", "v", "w", "x", "y", "z">>

UpperCase == <<"A", "B", "C", "D", "E", "F", "G", "H", "I", "J", "K", "L", "M",
               "N", "O", "P", "Q", "R", "S", "T", "U", "V", "W", "X", "Y", "Z">>

Digits == <<"0", "1", "2", "3", "4", "5", "6", "7", "8", "9">>

\* The set of elements of a sequence.
Range(s) == {s[i] : i \in DOMAIN s}

\* The position of c in the alphabet sequence a (c occurs in a).
IndexOf(a, c) == CHOOSE i \in DOMAIN a : a[i] = c

\* str.upper() and str.lower() on one character, then on a str.
UpperChar(c) == IF c \in Range(LowerCase) THEN UpperCase[IndexOf(LowerCase, c)] ELSE c

LowerChar(c) == IF c \in Range(UpperCase) THEN LowerCase[IndexOf(UpperCase, c)] ELSE c

upper(s) == [i \in DOMAIN s |-> UpperChar(s[i])]

lower(s) == [i \in DOMAIN s |-> LowerChar(s[i])]

\* s[n:], the str without its first n characters.
Drop(s, n) == SubSeq(s, n + 1, Len(s))

\* s.startswith(p)
startswith(s, p) == Len(s) >= Len(p) /\ SubSeq(s, 1, Len(p)) = p

\* s.replace(old, new) for a non-empty old: every non-overlapping occurrence
\* of old, scanning from the left, is replaced by new.
RECURSIVE replace(_, _, _)
replace(s, old, new) ==
  LET hits == {i \in 1..(Len(s) + 1 - Len(old)) :
                 s[i] = old[1] /\ SubSeq(s, i, i + Len(old) - 1) = old}
  IN IF hits = {} THEN s
     ELSE LET first == CHOOSE i \in hits : \A j \in hits : i <= j
          IN SubSeq(s, 1, first - 1) \o new
               \o replace(Drop(s, first + Len(old) - 1), old, new)

\* d.keys() of a dict kept as its sequence of <<key, value>> items.
Keys(d) == {d[i][1] : i \in DOMAIN d}

\* d[k] for a key k of d.
Get(d, k) == d[CHOOSE i \in DOMAIN d : d[i][1] = k][2]

-----------------------------------------------------------------------------
(* The header and the lookup tables of get_grc_csv_row.                     *)

\* get_grc_csv_header(): the 17 column names of the GRC CSV format.
get_grc_csv_header ==
  <<
    <<"C", "o", "n", "s", "t", "e", "l", "l", "a", "t", "i", "o", "n">>,
    <<"S", "e", "r", "v", "i", "c", "e", " ", "L", "i", "n", "e">>,
    <<"S", "e", "r", "v", "i", "c", "e", " ", "C", "a", "t", "e", "g", "o", "r", "y">>,
    <<"B", "u", "s", "i", "n", "e", "s", "s", " ", "S", "e", "r", "v", "i", "c", "e">>,
    <<"B", "a", "t", "c", "h">>,
    <<"S", "a", "t", "e", "l", "l", "i", "t", "e">>,
    <<"P", "R", "N">>,
    <<"S", "l", "o", "t">>,
    <<"G", "S", "S", " ", "S", "i", "t", "e">>,
    <<"S", "t", "a", "t", "i", "o", "n">>,
    <<"S", "e", "r", "v", "i", "c", "e">>,
    <<"T", "y", "p", "e">>,
    <<"M", "o", "d", "e">>,
    <<"T", "a", "r", "g", "e", "t">>,
    <<"U", "n", "i", "t">>,
    <<"D", "a", "t", "e">>,
    <<"R", "e", "s", "u", "l", "t">>
  >>

\* batch_def, lines 74-82: a dict, kept as its <<key, value>> items in order.
batch_def ==
  <<
    <<<<"G", "A", "L", "I", "L", "E", "O", "-", "1">>, <<"I", "O", "V">>>>,
    <<<<"G", "A", "L", "I", "L", "E", "O", "-", "2">>, <<"F", "O", "C">>>>,
    <<<<"B", "L", "O", "C", "K", " ", "I", "I", "I", "A">>, <<"I", "I", "I">>>>,
    <<<<"B", "L", "O", "C", "K", " ", "I", "I", "F">>, <<"I", "I", "F">>>>,
    <<<<"B", "L", "O", "C", "K", " ", "I", "I", "R", "-", "A">>, <<"I", "I", "R">>>>,
    <<<<"B", "L", "O", "C", "K", " ", "I", "I", "R", "-", "B">>, <<"I", "I", "R">>>>,
    <<<<"B", "L", "O", "C", "K", " ", "I", "I", "R", "-", "M">>, <<"I", "I", "R", "-", "M">>>>
  >>

\* business_def, lines 84-99: a dict, kept as its <<key, value>> items in order.
business_def ==
  <<
    <<<<"G", "a", "l", "i", "l", "e", "o">>,
      <<
        <<<<"h", "p", "e">>,
          <<"F", "O", "M", "-", "O", "S", "-", "0", "8", " ", "H", "o", "r", "i", "z", "o", "n", "t", "a", "l", " ", "P", "o", "s", "i", "t", "i", "o", "n", "i", "n", "g", " ", "S", "e", "r", "v", "i", "c", "e", " ", "A", "c", "c", "u", "r", "a", "c", "y", " ", "p", "e", "r", " ", "S", "t", "a", "t", "i", "o", "n", " ", "o", "v", "e", "r", " ", "M", "o", "n", "t", "h">>>>,
        <<<<"s", "i", "t", "e", "_", "v", "e", "l", "_", "3", "d">>,
          <<"F", "O", "M", "-", "O", "S", "-", "1", "4", " ", "3", "D", " ", "V", "e", "l", "o", "c", "i", "t", "y", " ", "S", "e", "r", "v", "i", "c", "e", " ", "A", "c", "c", "u", "r", "a", "c", "y", " ", "p", "e", "r", " ", "S", "t", "a", "t", "i", "o", "n", " ", "o", "v", "e", "r", " ", "M", "o", "n", "t", "h">>>>,
        <<<<"s", "i", "s", "r", "e">>,
          <<"S", "D", "D", "-", "O", "S", "-", "0", "8", " ", "S", "I", "S", " ", "R", "a", "n", "g", "i", "n", "g", " ", "A", "c", "c", "u", "r", "a", "c", "y", " ", "o", "v", "e", "r", " ", "A", "l", "l", " ", "S", "a", "t", "e", "l", "l", "i", "t", "e", "s", " ", "o", "v", "e", "r", " ", "M", "o", "n", "t", "h">>>>,
        <<<<"s", "i", "s", "r", "e", "_", "s", "a", "t">>,
          <<"S", "D", "D", "-", "O", "S", "-", "0", "9", " ", "S", "I", "S", " ", "R", "a", "n", "g", "i", "n", "g", " ", "A", "c", "c", "u", "r", "a", "c", "y", " ", "p", "e", "r", " ", "S", "a", "t", "e", "l", "l", "i", "t", "e", " ", "o", "v", "e", "r", " ", "M", "o", "n", "t", "h">>>>,
        <<<<"v", "p", "e">>,
          <<"F", "O", "M", "-", "O", "S", "-", "0", "9", " ", "V", "e", "r", "t", "i", "c", "a", "l", " ", "P", "o", "s", "i", "t", "i", "o", "n", "i", "n", "g", " ", "S", "e", "r", "v", "i", "c", "e", " ", "A", "c", "c", "u", "r", "a", "c", "y", " ", "p", "e", "r", " ", "S", "t", "a", "t", "i", "o", "n", " ", "o", "v", "e", "r", " ", "M", "o", "n", "t", "h">>>>
      >> >>,
    <<<<"G", "P", "S">>,
      <<
        <<<<"h", "p", "e">>,
          <<"F", "O", "M", "-", "O", "S", "-", "0", "8", " ", "H", "o", "r", "i", "z", "o", "n", "t", "a", "l", " ", "P", "o", "s", "i", "t", "i", "o", "n", "i", "n", "g", " ", "S", "e", "r", "v", "i", "c", "e", " ", "A", "c", "c", "u", "r", "a", "c", "y", " ", "p", "e", "r", " ", "S", "t", "a", "t", "i", "o", "n", " ", "o", "v", "e", "r", " ", "M", "o", "n", "t", "h">>>>,
        <<<<"s", "i", "t", "e", "_", "v", "e", "l", "_", "3", "d">>,
          <<"F", "O", "M", "-", "O", "S", "-", "1", "4", " ", "3", "D", " ", "V", "e", "l", "o", "c", "i", "t", "y", " ", "S", "e", "r", "v", "i", "c", "e", " ", "A", "c", "c", "u", "r", "a", "c", "y", " ", "p", "e", "r", " ", "S", "t", "a", "t", "i", "o", "n", " ", "o", "v", "e", "r", " ", "M", "o", "n", "t", "h">>>>,
        <<<<"s", "i", "s", "r", "e">>,
          <<"S", "P", "S", "-", "O", "S", "-", "0", "2", " ", "S", "I", "S", " ", "R", "a", "n", "g", "i", "n", "g", " ", "A", "c", "c", "u", "r", "a", "c", "y", " ", "o", "v", "e", "r", " ", "A", "l", "l", " ", "S", "a", "t", "e", "l", "l", "i", "t", "e", "s", " ", "o", "v", "e", "r", " ", "M", "o", "n", "t", "h">>>>,
        <<<<"s", "i", "s", "r", "e", "_", "s", "a", "t">>,
          <<"S", "P", "S", "-", "O", "S", "-", "0", "4", " ", "S", "I", "S", " ", "R", "a", "n", "g", "i", "n", "g", " ", "A", "c", "c", "u", "r", "a", "c", "y", " ", "p", "e", "r", " ", "S", "a", "t", "e", "l", "l", "i", "t", "e", " ", "o", "v", "e", "r", " ", "M", "o", "n", "t", "h">>>>,
        <<<<"v", "p", "e">>,
          <<"F", "O", "M", "-", "O", "S", "-", "0", "9", " ", "V", "e", "r", "t", "i", "c", "a", "l", " ", "P", "o", "s", "i", "t", "i", "o", "n", "i", "n", "g", " ", "S", "e", "r", "v", "i", "c", "e", " ", "A", "c", "c", "u", "r", "a", "c", "y", " ", "p", "e", "r", " ", "S", "t", "a", "t", "i", "o", "n", " ", "o", "v", "e", "r", " ", "M", "o", "n", "t", "h">>>>
      >> >>
  >>

\* category_def, lines 101-107: a dict, kept as its <<key, value>> items in order.
category_def ==
  <<
    <<<<"h", "p", "e">>, <<"P", "o", "s", "i", "t", "i", "o", "n", " ", "D", "o", "m", "a", "i", "n">>>>,
    <<<<"s", "i", "t", "e", "_", "v", "e", "l", "_", "3", "d">>, <<"P", "o", "s", "i", "t", "i", "o", "n", " ", "D", "o", "m", "a", "i", "n">>>>,
    <<<<"s", "i", "s", "r", "e">>, <<"R", "a", "n", "g", "i", "n", "g", " ", "D", "o", "m", "a", "i", "n">>>>,
    <<<<"s", "i", "s", "r", "e", "_", "s", "a", "t">>, <<"R", "a", "n", "g", "i", "n", "g", " ", "D", "o", "m", "a", "i", "n">>>>,
    <<<<"v", "p", "e">>, <<"P", "o", "s", "i", "t", "i", "o", "n", " ", "D", "o", "m", "a", "i", "n">>>>
  >>

\* mode_def, lines 110-116: a dict, kept as its <<key, value>> items in order.
mode_def ==
  <<
    <<<<"e", "1">>, <<"E", "1">>>>,
    <<<<"e", "1", "e", "5", "a">>, <<"E", "1", "/", "E", "5", "a">>>>,
    <<<<"e", "1", "e", "5", "b">>, <<"E", "1", "/", "E", "5", "b">>>>,
    <<<<"l", "1">>, <<"L", "1">>>>,
    <<<<"l", "1", "l", "2">>, <<"L", "1", "/", "L", "2">>>>
  >>

\* slot_def, lines 118-178: a dict, kept as its <<key, value>> items in order.
slot_def ==
  <<
    <<<<"S", "V", "N", "4", "3">>, <<"F", "6">>>>,
    <<<<"S", "V", "N", "4", "5">>, <<"D", "3">>>>,
    <<<<"S", "V", "N", "4", "8">>, <<"A", "4">>>>,
    <<<<"S", "V", "N", "5", "0">>, <<"E", "3">>>>,
    <<<<"S", "V", "N", "5", "1">>, <<"E", "4">>>>,
    <<<<"S", "V", "N", "5", "2">>, <<"A", "2">>>>,
    <<<<"S", "V", "N", "5", "3">>, <<"C", "4">>>>,
    <<<<"S", "V", "N", "5", "5">>, <<"F", "2">>>>,
    <<<<"S", "V", "N", "5", "6">>, <<"B", "1">>>>,
    <<<<"S", "V", "N", "5", "7">>, <<"C", "1">>>>,
    <<<<"S", "V", "N", "5", "8">>, <<"B", "4">>>>,
    <<<<"S", "V", "N", "5", "9">>, <<"C", "5">>>>,
    <<<<"S", "V", "N", "6", "1">>, <<"D", "1">>>>,
    <<<<"S", "V", "N", "6", "2">>, <<"B", "2">>>>,
    <<<<"S", "V", "N", "6", "3">>, <<"D", "2">>>>,
    <<<<"S", "V", "N", "6", "4">>, <<"A", "3">>>>,
    <<<<"S", "V", "N", "6", "5">>, <<"A", "1">>>>,
    <<<<"S", "V", "N", "6", "6">>, <<"C", "2">>>>,
    <<<<"S", "V", "N", "6", "7">>, <<"D", "4">>>>,
    <<<<"S", "V", "N", "6", "8">>, <<"F", "3">>>>,
    <<<<"S", "V", "N", "6", "9">>, <<"E", "1">>>>,
    <<<<"S", "V", "N", "7", "0">>, <<"F", "1">>>>,
    <<<<"S", "V", "N", "7", "1">>, <<"B", "5">>>>,
    <<<<"S", "V", "N", "7", "2">>, <<"C", "3">>>>,
    <<<<"S", "V", "N", "7", "3">>, <<"E", "2">>>>,
    <<<<"S", "V", "N", "7", "4">>, <<"F", "4">>>>,
    <<<<"S", "V", "N", "7", "5">>, <<"D", "6">>>>,
    <<<<"S", "V", "N", "7", "6">>, <<"E", "5">>>>,
    <<<<"S", "V", "N", "7", "7">>, <<"B", "6">>>>,
    <<<<"S", "V", "N", "7", "8">>, <<"D", "5">>>>,
    <<<<"S", "V", "N", "7", "9">>, <<"A", "6">>>>,
    <<<<"G", "S", "A", "T", "0", "1", "0", "1">>, <<"B", "0", "5">>>>,
    <<<<"G", "S", "A", "T", "0", "1", "0", "2">>, <<"B", "0", "6">>>>,
    <<<<"G", "S", "A", "T", "0", "1", "0", "3">>, <<"C", "0", "4">>>>,
    <<<<"G", "S", "A", "T", "0", "1", "0", "4">>, <<"C", "1", "4">>>>,
    <<<<"G", "S", "A", "T", "0", "2", "0", "1">>, <<"E", "X", "T", "0", "1">>>>,
    <<<<"G", "S", "A", "T", "0", "2", "0", "2">>, <<"E", "X", "T", "0", "2">>>>,
    <<<<"G", "S", "A", "T", "0", "2", "0", "3">>, <<"B", "0", "8">>>>,
    <<<<"G", "S", "A", "T", "0", "2", "0", "4">>, <<"B", "1", "4">>>>,
    <<<<"G", "S", "A", "T", "0", "2", "0", "5">>, <<"A", "0", "8">>>>,
    <<<<"G", "S", "A", "T", "0", "2", "0", "6">>, <<"A", "0", "5">>>>,
    <<<<"G", "S", "A", "T", "0", "2", "0", "7">>, <<"C", "0", "6">>>>,
    <<<<"G", "S", "A", "T", "0", "2", "0", "8">>, <<"C", "0", "7">>>>,
    <<<<"G", "S", "A", "T", "0", "2", "0", "9">>, <<"C", "0", "2">>>>,
    <<<<"G", "S", "A", "T", "0", "2", "1", "0">>, <<"A", "0", "2">>>>,
    <<<<"G", "S", "A", "T", "0", "2", "1", "1">>, <<"A", "0", "6">>>>,
    <<<<"G", "S", "A", "T", "0", "2", "1", "2">>, <<"C", "0", "8">>>>,
    <<<<"G", "S", "A", "T", "0", "2", "1", "3">>, <<"C", "0", "3">>>>,
    <<<<"G", "S", "A", "T", "0", "2", "1", "4">>, <<"C", "0", "1">>>>,
    <<<<"G", "S", "A", "T", "0", "2", "1", "5">>, <<"A", "0", "3">>>>,
    <<<<"G", "S", "A", "T", "0", "2", "1", "6">>, <<"A", "0", "7">>>>,
    <<<<"G", "S", "A", "T", "0", "2", "1", "7">>, <<"A", "0", "4">>>>,
    <<<<"G", "S", "A", "T", "0", "2", "1", "8">>, <<"A", "0", "1">>>>,
    <<<<"G", "S", "A", "T", "0", "2", "1", "9">>, <<"B", "0", "4">>>>,
    <<<<"G", "S", "A", "T", "0", "2", "2", "0">>, <<"B", "0", "1">>>>,
    <<<<"G", "S", "A", "T", "0", "2", "2", "1">>, <<"B", "0", "2">>>>,
    <<<<"G", "S", "A", "T", "0", "2", "2", "2">>, <<"B", "0", "7">>>>,
    <<<<"G", "S", "A", "T", "0", "2", "2", "3">>, <<"B", "0", "3">>>>,
    <<<<"G", "S", "A", "T", "0", "2", "2", "4">>, <<"B", "1", "5">>>>
  >>

\* station_def, lines 180-193: a dict, kept as its <<key, value>> items in order.
station_def ==
  <<
    <<<<"a", "l", "t", "c">>, <<"A", "l", "t", "a", " ", "(", "N", "o", "r", "w", "a", "y", ")">>>>,
    <<<<"b", "r", "u", "x">>, <<"B", "r", "u", "s", "s", "e", "l", "s", " ", "(", "B", "e", "l", "g", "i", "u", "m", ")">>>>,
    <<<<"c", "p", "v", "g">>,
      <<"C", "a", "p", "-", "V", "e", "r", "t", " ", "(", "C", "a", "b", "o", " ", "V", "e", "r", "d", "e", ")">>>>,
    <<<<"k", "o", "u", "g">>,
      <<"K", "o", "u", "r", "o", "u", " ", "(", "F", "r", "e", "n", "c", "h", " ", "G", "u", "i", "a", "n", "a", ")">>>>,
    <<<<"h", "o", "f", "s">>, <<"H", "o", "e", "f", "n", " ", "(", "I", "c", "e", "l", "a", "n", "d", ")">>>>,
    <<<<"h", "o", "n", "s">>, <<"H", "o", "n", "n", "i", "n", "g", "s", "v", "a", "g", " ", "(", "N", "o", "r", "w", "a", "y", ")">>>>,
    <<<<"j", "a", "n", "m">>, <<"J", "a", "n", " ", "M", "a", "y", "e", "n", " ", "(", "N", "o", "r", "w", "a", "y", ")">>>>,
    <<<<"k", "r", "s", "s">>,
      <<"K", "r", "i", "s", "t", "i", "a", "n", "s", "a", "n", "d", " ", "(", "N", "o", "r", "w", "a", "y", ")">>>>,
    <<<<"m", "a", "s", "1">>, <<"M", "a", "s", "p", "a", "l", "o", "m", "a", "s", " ", "(", "S", "p", "a", "i", "n", ")">>>>,
    <<<<"n", "a", "b", "d">>, <<"N", "y", " ", "A", "l", "e", "s", "u", "n", "d", " ", "(", "N", "o", "r", "w", "a", "y", ")">>>>,
    <<<<"n", "k", "l", "g">>, <<"N", "'", " ", "K", "o", "l", "t", "a", "n", "g", " ", "(", "G", "a", "b", "o", "n", ")">>>>,
    <<<<"v", "e", "g", "s">>, <<"V", "e", "g", "a", " ", "(", "N", "o", "r", "w", "a", "y", ")">>>>
  >>

\* target_def, lines 195-201: a dict, kept as its <<key, value>> items in order.
target_def ==
  <<
    <<<<"h", "p", "e">>, << >>>>,
    <<<<"s", "i", "t", "e", "_", "v", "e", "l", "_", "3", "d">>, << >>>>,
    <<<<"s", "i", "s", "r", "e">>, <<"<=", " ", "2">>>>,
    <<<<"s", "i", "s", "r", "e", "_", "s", "a", "t">>, <<"<=", " ", "7">>>>,
    <<<<"v", "p", "e">>, << >>>>
  >>

\* unit_def, lines 205-211: a dict, kept as its <<key, value>> items in order.
unit_def ==
  <<
    <<<<"h", "p", "e">>, <<"m">>>>,
    <<<<"s", "i", "t", "e", "_", "v", "e", "l", "_", "3", "d">>, <<"m", "/", "s">>>>,
    <<<<"s", "i", "s", "r", "e">>, <<"m">>>>,
    <<<<"s", "i", "s", "r", "e", "_", "s", "a", "t">>, <<"m">>>>,
    <<<<"v", "p", "e">>, <<"m">>>>
  >>

-----------------------------------------------------------------------------
(* The expressions of get_grc_csv_row that compute one field each.          *)

\* A variant of TypeOf that also takes the shorter modes for single-frequency.
TypeOf_AtMost2(mode) == IF Len(mode) <= 2 THEN <<"S", "i", "n", "g", "l", "e">> ELSE <<"D", "u", "a", "l">>

\* Line 203: "Single" if len(mode) == 2 else "Dual".
TypeOf(mode) == IF Len(mode) = 2 THEN <<"S", "i", "n", "g", "l", "e">> ELSE <<"D", "u", "a", "l">>

\* A variant of ModeToWrite with the fallback of the station lookup, "".
ModeToWrite_EmptyFallback(mode) ==
  IF mode \in Keys(mode_def) THEN Get(mode_def, mode) ELSE EmptyStr

\* Line 213: mode_def[mode] if mode in mode_def.keys() else mode.
ModeToWrite(mode) == IF mode \in Keys(mode_def) THEN Get(mode_def, mode) ELSE mode

\* A variant of StationToWrite with the fallback of the mode lookup, the code.
StationToWrite_PassThrough(station) ==
  IF station \in Keys(station_def) THEN Get(station_def, station) ELSE station

\* Line 214: station_def[station] if station in station_def.keys() else "".
StationToWrite(station) ==
  IF station \in Keys(station_def) THEN Get(station_def, station) ELSE EmptyStr

\* A variant of BatchOf that passes an unknown block type through.
BatchOf_PassThrough(sat_type) ==
  IF sat_type \in Keys(batch_def) THEN Get(batch_def, sat_type) ELSE sat_type

\* Line 221: batch_def[sat_type] if sat_type in batch_def.keys() else "".
BatchOf(sat_type) ==
  IF sat_type \in Keys(batch_def) THEN Get(batch_def, sat_type) ELSE EmptyStr

\* Lines 223-228: the SVN/GSAT identifier of a satellite code.
SvnOf(sat_code) ==
  IF startswith(sat_code, <<"E">>) THEN replace(sat_code, <<"E">>, <<"G", "S", "A", "T", "0">>)
  ELSE IF startswith(sat_code, <<"G">>) THEN replace(sat_code, <<"G", "0">>, <<"S", "V", "N">>)
  ELSE sat_code

\* Line 229: slot_def[svn] if svn in slot_def.keys() else "".
SlotOf(s) == IF s \in Keys(slot_def) THEN Get(slot_def, s) ELSE EmptyStr

-----------------------------------------------------------------------------
(* datetime.strptime(s, "%y-%b-%d"), line 218.  The format is compiled to  *)
(* the regular expression                                                  *)
(*   (\d\d)-(jan|feb|...|dec)-(3[0-1]|[1-2]\d|0[1-9]|[1-9]| [1-9])         *)
(* matched case-insensitively at the start of s; s must be matched whole.  *)

IsDigit(c) == c \in Range(Digits)

DigitVal(c) == IndexOf(Digits, c) - 1

\* The abbreviated month names of %b, lower-cased, January first.
MonthAbbr ==
  <<
    <<"j", "a", "n">>,
    <<"f", "e", "b">>,
    <<"m", "a", "r">>,
    <<"a", "p", "r">>,
    <<"m", "a", "y">>,
    <<"j", "u", "n">>,
    <<"j", "u", "l">>,
    <<"a", "u", "g">>,
    <<"s", "e", "p">>,
    <<"o", "c", "t">>,
    <<"n", "o", "v">>,
    <<"d", "e", "c">>
  >>

\* %d: the day of the month, one or two characters.
DayMatches(t) ==
  \/ Len(t) = 2 /\ t[1] = "3" /\ t[2] \in {"0", "1"}
  \/ Len(t) = 2 /\ t[1] \in {"1", "2"} /\ IsDigit(t[2])
  \/ Len(t) = 2 /\ t[1] \in {"0", " "} /\ IsDigit(t[2]) /\ t[2] # "0"
  \/ Len(t) = 1 /\ IsDigit(t[1]) /\ t[1] # "0"

DayValue(t) ==
  IF Len(t) = 1 THEN DigitVal(t[1])
  ELSE (IF t[1] = " " THEN 0 ELSE 10 * DigitVal(t[1])) + DigitVal(t[2])

\* Whether s matches "%y-%b-%d"; strptime raises ValueError when it does not.
StrptimeMatches(s) ==
  /\ Len(s) >= 8
  /\ IsDigit(s[1]) /\ IsDigit(s[2])
  /\ s[3] = "-"
  /\ lower(SubSeq(s, 4, 6)) \in Range(MonthAbbr)
  /\ s[7] = "-"
  /\ DayMatches(Drop(s, 7))

\* %y: a two-digit year; 69-99 are 1969-1999 and 00-68 are 2000-2068.
YearOf(yy) == IF yy <= 68 THEN 2000 + yy ELSE 1900 + yy

\* The date strptime returns for a matching s.
strptime(s) ==
  [year  |-> YearOf(10 * DigitVal(s[1]) + DigitVal(s[2])),
   month |-> IndexOf(MonthAbbr, lower(SubSeq(s, 4, 6))),
   day   |-> DayValue(Drop(s, 7))]

\* Line 218: the str handed to strptime, f"{date}-01".
DateString(date) == date \o <<"-", "0", "1">>

-----------------------------------------------------------------------------
(* f"{result:.5f}", line 248.  A float is modelled as the exactly          *)
(* representable binary fraction (-1)^neg * num / 2^ResultFracBits.  The   *)
(* format renders the exact value rounded to the nearest multiple of       *)
(* 10^-5, ties to the even digit, with a "-" for a negative float          *)
(* (including negative zero).                                              *)

ResultFracBits == 7

ResultDen == 2 ^ ResultFracBits

\* The number of digits after the decimal point in the format ".5f".
ResultPrecision == 5

RECURSIVE IntToStr(_)
IntToStr(n) ==
  IF n < 10 THEN <<Digits[n + 1]>>
  ELSE IntToStr(n \div 10) \o <<Digits[(n % 10) + 1]>>

ZeroPad(s, width) ==
  IF Len(s) >= width THEN s ELSE [i \in 1..(width - Len(s)) |-> "0"] \o s

\* A variant of RoundHalfEven that cuts the remaining digits off.
RoundDown(n, d) == n \div d

\* n / d rounded to the nearest integer, ties to even (n >= 0, d > 0).
RoundHalfEven(n, d) ==
  LET q == n \div d
      r == n % d
  IN  IF 2 * r > d \/ (2 * r = d /\ q % 2 = 1) THEN q + 1 ELSE q

\* The float's magnitude in units of 10^-p, rounded as the format rounds it.
Scaled(result, p) == RoundHalfEven(result.num * (10 ^ p), ResultDen)

FormatFixed(result, p) ==
  LET q == Scaled(result, p)
  IN  (IF result.neg THEN <<"-">> ELSE << >>)
        \o IntToStr(q \div (10 ^ p))
        \o (IF p > 0 THEN <<".">> \o ZeroPad(IntToStr(q % (10 ^ p)), p) ELSE << >>)

FormatResult(result) == FormatFixed(result, ResultPrecision)

-----------------------------------------------------------------------------
(* The arguments the calls are made with.  No statement of the function    *)
(* reads two of mode, station and result together, so the arguments are    *)
(* varied in three families around one base call: the table-lookup         *)
(* arguments, the result with the date, and the satellite with the date    *)
(* and the two keys whose lookup can fail.                                 *)

Galileo == <<"G", "a", "l", "i", "l", "e", "o">>

GPS == <<"G", "P", "S">>

\* A constellation that is no key of business_def.
UnknownConstellation == <<"G", "L", "O", "N", "A", "S", "S">>

Constellations == Keys(business_def) \cup {UnknownConstellation}

\* A kpi that is no key of category_def.
UnknownKpi == <<"p", "d", "o", "p">>

Kpis == Keys(category_def) \cup {UnknownKpi}

\* The keys of mode_def and modes of length 0, 1, 2, 3 and 6 that are no keys.
Modes ==
  Keys(mode_def) \cup {EmptyStr, <<"x">>, <<"l", "5">>, <<"e", "5", "a">>, <<"l", "1", "l", "2", "l", "5">>}

\* Keys of station_def, and codes that are no keys (codes are case-sensitive).
Stations == {<<"a", "l", "t", "c">>, <<"v", "e", "g", "s">>, <<"K", "r", "s", "s">>, <<"z", "z", "z", "z">>, EmptyStr}

\* Dates of the documented form month-year (docstring, line 62).
DocumentedDates == {<<"J", "u", "l", "y", "-", "2", "0", "2", "1">>, <<"M", "a", "y", "-", "2", "0", "2", "1">>}

\* Dates of the form year-month that the format "%y-%b-%d" of line 218 reads.
FormatDates == {<<"2", "1", "-", "J", "u", "l">>, <<"9", "8", "-", "m", "a", "y">>}

Dates == DocumentedDates \cup FormatDates

Satellites == {EmptyStr, <<"E", "0", "1">>, <<"G", "0", "1">>}

\* The largest integer part of a result.
MaxResultInt == 10

Results == [neg : BOOLEAN, num : 0..(MaxResultInt * ResultDen)]

\* The float 1.0.
One == [neg |-> FALSE, num |-> ResultDen]

BaseCall ==
  [constellation |-> Galileo, kpi |-> <<"h", "p", "e">>, mode |-> <<"e", "1">>,
   date |-> <<"J", "u", "l", "y", "-", "2", "0", "2", "1">>, result |-> One, station |-> EmptyStr,
   satellite |-> EmptyStr]

LookupCalls ==
  {[BaseCall EXCEPT !.constellation = c, !.kpi = k, !.mode = m, !.station = s] :
     c \in Constellations, k \in Kpis, m \in Modes, s \in Stations}

ResultCalls ==
  {[BaseCall EXCEPT !.result = r, !.date = d] : r \in Results, d \in Dates}

SatelliteCalls ==
  {[BaseCall EXCEPT !.constellation = c, !.kpi = k, !.date = d, !.satellite = s] :
     c \in Constellations, k \in Kpis, d \in Dates, s \in Satellites}

Calls == LookupCalls \cup ResultCalls \cup SatelliteCalls

(* What atx.get_satellite_info may return: a block type and a short code.  *)
(* The codes are those of the antenna file (a system letter and a number)  *)
(* and every str of at most MaxCodeLen characters over CodeAlphabet.       *)

SatTypes == {<<"G", "A", "L", "I", "L", "E", "O", "-", "1">>, <<"B", "L", "O", "C", "K", " ", "I", "I", "R", "-", "M">>, <<"B", "L", "O", "C", "K", " ", "I", "V">>}

MaxCodeLen == 4

CodeAlphabet == {"E", "G", "0"}

SatCodes ==
  {<<"E", "1", "0", "1">>, <<"G", "0", "4", "3">>, <<"E", "2", "9", "9">>, <<"R", "7", "3", "0">>}
    \cup UNION {[1..n -> CodeAlphabet] : n \in 0..MaxCodeLen}

SatInfos == [sat_type : SatTypes, sat_code : SatCodes]

-----------------------------------------------------------------------------
(* where/writers/_gnss_plot.py: the state of a GnssPlot object.  The        *)
(* object holds a reference to the caller's dataset; the dataset, the       *)
(* dataset files of the earlier stages and the calls of the rendering       *)
(* primitive plot() are the state its methods read and change.              *)

VARIABLES
  dset,          \* self.dset, the caller's dataset
  dset0,         \* the dataset as it was handed to __init__
  files,         \* the stages whose dataset file exists
  azimuth_view,  \* whether dset.site_pos.azimuth hands out the stored array
  method,        \* the plot method called last, "none" before the first
  argument,      \* its field argument, "" for a method without one
  outcome,       \* "list", "path", "None" or "raised": what the call gave
  returned,      \* the returned paths or records, in order
  renders,       \* the calls of plot() the call made, in order
  warnings,      \* the number of log.warn calls the call made
  reads          \* the stages the call read with Dataset.read, in order

plotvars ==
  <<dset, dset0, files, azimuth_view, method, argument, outcome, returned,
    renders, warnings, reads>>

\* The value of dset where no GnssPlot object is in use.
NoDataset == [num_obs |-> 0]

\* No GnssPlot object is in use.
NoGnssPlot ==
  /\ dset = NoDataset
  /\ dset0 = NoDataset
  /\ files = {}
  /\ azimuth_view = FALSE
  /\ method = "none"
  /\ argument = EmptyStr
  /\ outcome = "none"
  /\ returned = << >>
  /\ renders = << >>
  /\ warnings = 0
  /\ reads = << >>

-----------------------------------------------------------------------------
(* The state: one call of get_grc_csv_row at a time, its arguments, its    *)
(* local variables, and what it has done to the satellite-metadata         *)
(* service.                                                                *)

VARIABLES
  pc,                \* where the call stands; "idle" before the first call
  args,              \* the arguments of the call
  batch,             \* line 70
  svn,               \* line 71
  slot,              \* line 72
  type_,             \* line 203
  mode_to_write,     \* line 213
  station_to_write,  \* line 214
  atx,               \* line 217: whether apriori.get has been called
  used_date,         \* line 218
  sat_info,          \* line 219
  queries,           \* the calls of atx.get_satellite_info made by this call
  ret,               \* the returned list, << >> while nothing is returned
  error              \* the exception the call raised, "none" while none

rowvars ==
  <<pc, args, batch, svn, slot, type_, mode_to_write, station_to_write, atx,
    used_date, sat_info, queries, ret, error>>

vars == <<rowvars, plotvars>>

NoDate == [year |-> 0, month |-> 0, day |-> 0]

NoInfo == [sat_type |-> EmptyStr, sat_code |-> EmptyStr]

NoArgs ==
  [constellation |-> EmptyStr, kpi |-> EmptyStr, mode |-> EmptyStr,
   date |-> EmptyStr, result |-> [neg |-> FALSE, num |-> 0],
   station |-> EmptyStr, satellite |-> EmptyStr]

\* No call of get_grc_csv_row is in progress.
NoCall ==
  /\ pc = "idle"
  /\ args = NoArgs
  /\ batch = EmptyStr /\ svn = EmptyStr /\ slot = EmptyStr
  /\ type_ = EmptyStr /\ mode_to_write = EmptyStr /\ station_to_write = EmptyStr
  /\ atx = FALSE
  /\ used_date = NoDate
  /\ sat_info = NoInfo
  /\ queries = << >>
  /\ ret = << >>
  /\ error = "none"

Init == NoCall /\ NoGnssPlot

\* Lines 47-214: the call is entered and the statements before the
\* satellite branch run; none of them can raise.
Enter ==
  /\ pc = "idle"
  /\ \E a \in Calls :
       /\ args' = a
       /\ type_' = TypeOf(a.mode)
       /\ mode_to_write' = ModeToWrite(a.mode)
       /\ station_to_write' = StationToWrite(a.station)
  /\ batch' = EmptyStr /\ svn' = EmptyStr /\ slot' = EmptyStr
  /\ atx' = FALSE
  /\ used_date' = NoDate
  /\ sat_info' = NoInfo
  /\ queries' = << >>
  /\ ret' = << >>
  /\ error' = "none"
  /\ pc' = "if_satellite"
  /\ UNCHANGED plotvars

\* Line 216 with an empty satellite: the branch is skipped.
SkipSatellite ==
  /\ pc = "if_satellite"
  /\ args.satellite = EmptyStr
  /\ pc' = "return"
  /\ UNCHANGED <<args, batch, svn, slot, type_, mode_to_write, station_to_write,
                 atx, used_date, sat_info, queries, ret, error>>
  /\ UNCHANGED plotvars

\* Lines 216-217 with a non-empty satellite: apriori.get(...).
GetAtx ==
  /\ pc = "if_satellite"
  /\ args.satellite # EmptyStr
  /\ atx' = TRUE
  /\ pc' = "parse_date"
  /\ UNCHANGED <<args, batch, svn, slot, type_, mode_to_write, station_to_write,
                 used_date, sat_info, queries, ret, error>>
  /\ UNCHANGED plotvars

\* Line 218: used_date = datetime.strptime(f"{date}-01", "%y-%b-%d").
ParseDate ==
  /\ pc = "parse_date"
  /\ IF StrptimeMatches(DateString(args.date))
       THEN /\ used_date' = strptime(DateString(args.date))
            /\ pc' = "query"
            /\ error' = error
       ELSE /\ error' = "ValueError"
            /\ pc' = "raised"
            /\ used_date' = used_date
  /\ UNCHANGED <<args, batch, svn, slot, type_, mode_to_write, station_to_write,
                 atx, sat_info, queries, ret>>
  /\ UNCHANGED plotvars

\* Line 219: sat_info = atx.get_satellite_info(satellite, used_date).
Query ==
  /\ pc = "query"
  /\ \E info \in SatInfos : sat_info' = info
  /\ queries' = Append(queries, [satellite |-> args.satellite, date |-> used_date])
  /\ pc' = "convert"
  /\ UNCHANGED <<args, batch, svn, slot, type_, mode_to_write, station_to_write,
                 atx, used_date, ret, error>>
  /\ UNCHANGED plotvars

\* Lines 221-229: batch, svn and slot from what the service returned.
Convert ==
  /\ pc = "convert"
  /\ batch' = BatchOf(sat_info.sat_type)
  /\ svn' = SvnOf(sat_info.sat_code)
  /\ slot' = SlotOf(SvnOf(sat_info.sat_code))
  /\ pc' = "return"
  /\ UNCHANGED <<args, type_, mode_to_write, station_to_write, atx, used_date,
                 sat_info, queries, ret, error>>
  /\ UNCHANGED plotvars

\* A variant of Row with the Type and Mode elements in each other's place.
Row_TypeModeSwapped ==
  <<args.constellation,                                \* Constellation
    <<"O", "p", "e", "n", " ", "S", "e", "r", "v", "i", "c", "e">>,  \* Service Line
    Get(category_def, args.kpi),                       \* Service Category
    Get(Get(business_def, args.constellation), args.kpi),  \* Business Service
    batch,                                             \* Batch
    svn,                                               \* Satellite
    args.satellite,                                    \* PRN
    slot,                                              \* Slot
    station_to_write,                                  \* GSS Site
    upper(args.station),                               \* Station
    <<"O", "S">>,                                        \* Service
    mode_to_write,
    type_,
    Get(target_def, args.kpi),                         \* Target
    Get(unit_def, args.kpi),                           \* Unit
    args.date,                                         \* Month/Year
    FormatResult(args.result)>>                        \* Result

\* Lines 231-249: the list the return statement builds, in its order.
Row ==
  <<args.constellation,                                \* Constellation
    <<"O", "p", "e", "n", " ", "S", "e", "r", "v", "i", "c", "e">>,  \* Service Line
    Get(category_def, args.kpi),                       \* Service Category
    Get(Get(business_def, args.constellation), args.kpi),  \* Business Service
    batch,                                             \* Batch
    svn,                                               \* Satellite
    args.satellite,                                    \* PRN
    slot,                                              \* Slot
    station_to_write,                                  \* GSS Site
    upper(args.station),                               \* Station
    <<"O", "S">>,                                        \* Service
    type_,                                             \* Type
    mode_to_write,                                     \* Mode
    Get(target_def, args.kpi),                         \* Target
    Get(unit_def, args.kpi),                           \* Unit
    args.date,                                         \* Month/Year
    FormatResult(args.result)>>                        \* Result

\* Whether every subscription of lines 234, 235, 245 and 246 finds its key;
\* the first that does not raises KeyError.
LookupsFound ==
  /\ args.kpi \in Keys(category_def)
  /\ args.constellation \in Keys(business_def)
  /\ args.kpi \in Keys(Get(business_def, args.constellation))
  /\ args.kpi \in Keys(target_def)
  /\ args.kpi \in Keys(unit_def)

\* Lines 231-249: the return statement.
Return ==
  /\ pc = "return"
  /\ IF LookupsFound
       THEN /\ ret' = Row
            /\ pc' = "returned"
            /\ error' = error
       ELSE /\ error' = "KeyError"
            /\ pc' = "raised"
            /\ ret' = ret
  /\ UNCHANGED <<args, batch, svn, slot, type_, mode_to_write, station_to_write,
                 atx, used_date, sat_info, queries>>
  /\ UNCHANGED plotvars

\* The call is over: its frame is discarded, and the next call can be made.
Exit ==
  /\ pc \in {"returned", "raised"}
  /\ pc' = "idle"
  /\ args' = NoArgs
  /\ batch' = EmptyStr /\ svn' = EmptyStr /\ slot' = EmptyStr
  /\ type_' = EmptyStr /\ mode_to_write' = EmptyStr /\ station_to_write' = EmptyStr
  /\ atx' = FALSE
  /\ used_date' = NoDate
  /\ sat_info' = NoInfo
  /\ queries' = << >>
  /\ ret' = << >>
  /\ error' = "none"
  /\ UNCHANGED plotvars

Next ==
  \/ Enter
  \/ SkipSatellite
  \/ GetAtx
  \/ ParseDate
  \/ Query
  \/ Convert
  \/ Return
  \/ Exit

Spec == Init /\ [][Next]_vars

-----------------------------------------------------------------------------
(* Properties of get_grc_csv_row.                                           *)

\* The call has ended, by a return or by an exception.
Finished == pc \in {"returned", "raised"}

\* The field of the returned row under the header column called name.
Field(name) == ret[IndexOf(get_grc_csv_header, name)]

\* C1: for a constellation and a kpi of the tables and an empty satellite,
\* the call returns a list of 17 strs, as long as the header, and the element
\* under each header column is that column's value: the constellation, the
\* fixed service line, the category and business service of the kpi, empty
\* batch, satellite, PRN and slot, the site name and the upper-cased code of
\* the station, the fixed service, the type and the mode text of the mode,
\* the target and unit of the kpi, the date and the formatted result.
C1_RowAlignedWithHeader ==
  (/\ Finished
   /\ args.satellite = EmptyStr
   /\ args.constellation \in {Galileo, GPS}
   /\ args.kpi \in {<<"h", "p", "e">>, <<"v", "p", "e">>, <<"s", "i", "t", "e", "_", "v", "e", "l", "_", "3", "d">>, <<"s", "i", "s", "r", "e">>, <<"s", "i", "s", "r", "e", "_", "s", "a", "t">>})
  =>
  /\ pc = "returned"
  /\ Len(ret) = 17
  /\ Len(ret) = Len(get_grc_csv_header)
  /\ \A i \in DOMAIN ret : ret[i] \in Seq(STRING)
  /\ Field(<<"C", "o", "n", "s", "t", "e", "l", "l", "a", "t", "i", "o", "n">>) = args.constellation
  /\ Field(<<"S", "e", "r", "v", "i", "c", "e", " ", "L", "i", "n", "e">>) = <<"O", "p", "e", "n", " ", "S", "e", "r", "v", "i", "c", "e">>
  /\ Field(<<"S", "e", "r", "v", "i", "c", "e", " ", "C", "a", "t", "e", "g", "o", "r", "y">>) = Get(category_def, args.kpi)
  /\ Field(<<"B", "u", "s", "i", "n", "e", "s", "s", " ", "S", "e", "r", "v", "i", "c", "e">>) = Get(Get(business_def, args.constellation), args.kpi)
  /\ Field(<<"B", "a", "t", "c", "h">>) = EmptyStr
  /\ Field(<<"S", "a", "t", "e", "l", "l", "i", "t", "e">>) = EmptyStr
  /\ Field(<<"P", "R", "N">>) = EmptyStr
  /\ Field(<<"S", "l", "o", "t">>) = EmptyStr
  /\ Field(<<"G", "S", "S", " ", "S", "i", "t", "e">>) = StationToWrite(args.station)
  /\ Field(<<"S", "t", "a", "t", "i", "o", "n">>) = upper(args.station)
  /\ Field(<<"S", "e", "r", "v", "i", "c", "e">>) = <<"O", "S">>
  /\ Field(<<"T", "y", "p", "e">>) \in {<<"S", "i", "n", "g", "l", "e">>, <<"D", "u", "a", "l">>}
  /\ Field(<<"T", "y", "p", "e">>) = TypeOf(args.mode)
  /\ Field(<<"M", "o", "d", "e">>) = ModeToWrite(args.mode)
  /\ Field(<<"T", "a", "r", "g", "e", "t">>) = Get(target_def, args.kpi)
  /\ Field(<<"U", "n", "i", "t">>) = Get(unit_def, args.kpi)
  /\ Field(<<"D", "a", "t", "e">>) = args.date
  /\ Field(<<"R", "e", "s", "u", "l", "t">>) = FormatResult(args.result)

\* A GPS row for a station of the table and a mode that is no key of mode_def.
C1_Witness ==
  /\ pc = "returned"
  /\ args.satellite = EmptyStr
  /\ args.constellation = GPS
  /\ args.kpi = <<"s", "i", "s", "r", "e", "_", "s", "a", "t">>
  /\ args.station = <<"v", "e", "g", "s">>
  /\ args.mode = <<"e", "5", "a">>
  /\ Len(ret) = 17

\* C2: the Mode field, the 13th of 17, is the display text of mode_def for
\* the modes e1, e1e5a, e1e5b, l1 and l1l2 and the mode itself, unchanged,
\* for every other mode, the empty one included.
C2_ModeField ==
  pc = "returned" =>
    /\ Len(ret) = 17
    /\ args.mode = <<"e", "1">> => ret[13] = <<"E", "1">>
    /\ args.mode = <<"e", "1", "e", "5", "a">> => ret[13] = <<"E", "1", "/", "E", "5", "a">>
    /\ args.mode = <<"e", "1", "e", "5", "b">> => ret[13] = <<"E", "1", "/", "E", "5", "b">>
    /\ args.mode = <<"l", "1">> => ret[13] = <<"L", "1">>
    /\ args.mode = <<"l", "1", "l", "2">> => ret[13] = <<"L", "1", "/", "L", "2">>
    /\ args.mode \notin {<<"e", "1">>, <<"e", "1", "e", "5", "a">>, <<"e", "1", "e", "5", "b">>, <<"l", "1">>, <<"l", "1", "l", "2">>}
         => ret[13] = args.mode

\* A row for a mode that is no key of mode_def.
C2_Witness ==
  /\ pc = "returned"
  /\ args.mode = <<"l", "1", "l", "2", "l", "5">>
  /\ ret[13] = <<"l", "1", "l", "2", "l", "5">>

\* C3: the GSS Site field is the display name of station_def for a station
\* that is a key of it and empty for any other, and the Station field is the
\* upper-cased station code in both cases.
C3_StationFields ==
  pc = "returned" =>
    /\ ret[9] = (IF args.station \in Keys(station_def)
                   THEN Get(station_def, args.station) ELSE EmptyStr)
    /\ Len(ret[10]) = Len(args.station)
    /\ \A i \in DOMAIN ret[10] :
         /\ ret[10][i] \notin Range(LowerCase)
         /\ LowerChar(ret[10][i]) = LowerChar(args.station[i])
    /\ args.station = <<"a", "l", "t", "c">>
         => ret[9] = <<"A", "l", "t", "a", " ", "(", "N", "o", "r", "w", "a", "y", ")">> /\ ret[10] = <<"A", "L", "T", "C">>
    /\ args.station = <<"K", "r", "s", "s">> => ret[9] = EmptyStr /\ ret[10] = <<"K", "R", "S", "S">>
    /\ args.station = <<"z", "z", "z", "z">> => ret[9] = EmptyStr /\ ret[10] = <<"Z", "Z", "Z", "Z">>

\* A row for a station that is no key of station_def.
C3_Witness ==
  /\ pc = "returned"
  /\ args.station = <<"K", "r", "s", "s">>
  /\ ret[9] = EmptyStr
  /\ ret[10] = <<"K", "R", "S", "S">>

\* C4: the Type field is "Single" exactly when the mode has 2 characters and
\* "Dual" for every other length, whether or not the mode is a key of
\* mode_def.
C4_TypeField ==
  pc = "returned" =>
    /\ ret[12] \in {<<"S", "i", "n", "g", "l", "e">>, <<"D", "u", "a", "l">>}
    /\ ret[12] = <<"S", "i", "n", "g", "l", "e">> <=> Len(args.mode) = 2

\* A row of type "Single" for a 2-character mode that is no key of mode_def.
C4_Witness ==
  /\ pc = "returned"
  /\ args.mode = <<"l", "5">>
  /\ args.mode \notin Keys(mode_def)
  /\ ret[12] = <<"S", "i", "n", "g", "l", "e">>

\* The code with its prefix old, if it has it, replaced by new.
ReplacePrefix(s, old, new) ==
  IF startswith(s, old) THEN new \o Drop(s, Len(old)) ELSE s

\* C5: with a non-empty satellite the Satellite field is the short code with
\* its prefix only substituted: a leading "E" by "GSAT0" for a code starting
\* with "E", a leading "G0" by "SVN" for a code starting with "G", nothing
\* for any other code; no later occurrence is touched.
C5_SvnPrefixSubstitution ==
  (pc = "returned" /\ args.satellite # EmptyStr) =>
    ret[6] = (IF startswith(sat_info.sat_code, <<"E">>)
                THEN ReplacePrefix(sat_info.sat_code, <<"E">>, <<"G", "S", "A", "T", "0">>)
              ELSE IF startswith(sat_info.sat_code, <<"G">>)
                THEN ReplacePrefix(sat_info.sat_code, <<"G", "0">>, <<"S", "V", "N">>)
              ELSE sat_info.sat_code)

\* C6: with a non-empty satellite and a date of the documented form
\* month-year, the call parses f"{date}-01" without an error and queries the
\* service exactly once, with the satellite and the parsed date, the first
\* day of that month.
C6_DocumentedDateParsed ==
  (Finished /\ args.satellite # EmptyStr /\ args.date \in DocumentedDates) =>
    /\ error # "ValueError"
    /\ used_date # NoDate
    /\ used_date.day = 1
    /\ queries = <<[satellite |-> args.satellite, date |-> used_date]>>

\* C7: a call with a kpi that is no key of category_def, or a constellation
\* that is no key of business_def, or a kpi that is no key under that
\* constellation, raises KeyError and returns no row.
C7_UnknownKeyRaisesKeyError ==
  (/\ Finished
   /\ \/ args.kpi \notin Keys(category_def)
      \/ args.constellation \notin Keys(business_def)
      \/ args.kpi \notin Keys(Get(business_def, args.constellation)))
  =>
  /\ pc = "raised"
  /\ error = "KeyError"
  /\ ret = << >>

\* C8: once the service has answered, a block type that is no key of
\* batch_def gives an empty Batch field and an identifier that is no key of
\* slot_def an empty Slot field; the conversion raises nothing (the only
\* exception left is the KeyError of an unknown kpi or constellation) and the
\* row is returned with its 17 fields.
C8_MissingBatchSlotEmpty ==
  (queries # << >> /\ pc \in {"return", "returned", "raised"}) =>
    /\ sat_info.sat_type \notin Keys(batch_def) => batch = EmptyStr
    /\ svn \notin Keys(slot_def) => slot = EmptyStr
    /\ pc = "raised" => error = "KeyError" /\ ~LookupsFound
    /\ pc = "returned" =>
         /\ Len(ret) = 17
         /\ ret[5] = batch /\ ret[6] = svn /\ ret[7] = args.satellite
         /\ ret[8] = slot

\* A returned row for a block type and a code that the tables do not know.
C8_Witness ==
  /\ pc = "returned"
  /\ sat_info.sat_type = <<"B", "L", "O", "C", "K", " ", "I", "V">>
  /\ sat_info.sat_code = <<"E", "2", "9", "9">>
  /\ ret[5] = EmptyStr
  /\ ret[6] = <<"G", "S", "A", "T", "0", "2", "9", "9">>
  /\ ret[8] = EmptyStr

\* C9: a call with an empty satellite never reaches the service and leaves
\* the Batch, Satellite and Slot fields empty; a call with a non-empty
\* satellite queries the service exactly once.
C9_OnlySideEffectIsQuery ==
  Finished =>
    IF args.satellite = EmptyStr
      THEN /\ ~atx
           /\ queries = << >>
           /\ pc = "returned" =>
                ret[5] = EmptyStr /\ ret[6] = EmptyStr /\ ret[8] = EmptyStr
      ELSE Len(queries) = 1

\* The number a str of decimal digits denotes.
RECURSIVE DigitsValue(_)
DigitsValue(s) ==
  IF s = << >> THEN 0
  ELSE 10 * DigitsValue(SubSeq(s, 1, Len(s) - 1)) + DigitVal(s[Len(s)])

\* C10: the Result field, the last of 17, is the result in fixed-point
\* notation: an optional "-", the integer digits, a point and exactly 5
\* digits, denoting the multiple of 10^-5 nearest to the result (the even one
\* of two equally near), so 1.0 gives "1.00000"; and the Date field is the
\* date argument unchanged.
C10_ResultFixedPoint5 ==
  pc = "returned" =>
    LET r == ret[17]
        body == IF r # << >> /\ r[1] = "-" THEN Tail(r) ELSE r
        int == SubSeq(body, 1, Len(body) - 6)
        frac == SubSeq(body, Len(body) - 4, Len(body))
        units == DigitsValue(int \o frac)
        off == units * ResultDen - args.result.num * (10 ^ 5)
    IN  /\ (r # << >> /\ r[1] = "-") <=> args.result.neg
        /\ Len(body) >= 7
        /\ body[Len(body) - 5] = "."
        /\ Len(frac) = 5
        /\ \A i \in DOMAIN int : IsDigit(int[i])
        /\ \A i \in DOMAIN frac : IsDigit(frac[i])
        /\ Len(int) = 1 \/ int[1] # "0"
        /\ 2 * off <= ResultDen /\ 2 * off >= -ResultDen
        /\ (2 * off = ResultDen \/ 2 * off = -ResultDen) => units % 2 = 0
        /\ args.result = One => r = <<"1", ".", "0", "0", "0", "0", "0">>
        /\ ret[16] = args.date

\* A row for a result that lies between two multiples of 10^-5.
C10_Witness ==
  /\ pc = "returned"
  /\ ~args.result.neg
  /\ (args.result.num * (10 ^ 5)) % ResultDen # 0
  /\ args.date = <<"2", "1", "-", "J", "u", "l">>
  /\ ret[16] = <<"2", "1", "-", "J", "u", "l">>
  /\ Len(ret[17]) = 7

-----------------------------------------------------------------------------
(* where/writers/_gnss_plot.py: Python and numpy primitives used by the     *)
(* plot methods.                                                            *)

\* The characters of the strs that are compared, in code point order.
CharOrder == <<" ", ".", "/">> \o Digits \o UpperCase \o <<"_">> \o LowerCase

\* a < b for two strs.
RECURSIVE StrLess(_, _)
StrLess(a, b) ==
  IF b = EmptyStr THEN FALSE
  ELSE IF a = EmptyStr THEN TRUE
  ELSE IF a[1] = b[1] THEN StrLess(Tail(a), Tail(b))
  ELSE IndexOf(CharOrder, a[1]) < IndexOf(CharOrder, b[1])

\* list(reversed(s))
Reverse(s) == [i \in DOMAIN s |-> s[Len(s) + 1 - i]]

\* sorted(S) for a collection S of distinct strs.
RECURSIVE sorted(_)
sorted(S) ==
  IF S = {} THEN << >>
  ELSE LET m == CHOOSE x \in S : \A y \in S \ {x} : StrLess(x, y)
       IN <<m>> \o sorted(S \ {m})

sorted_reverse_Ascending(S) == sorted(S)

\* sorted(S, reverse=True) for a collection S of distinct strs.
sorted_reverse(S) == Reverse(sorted(S))

\* x[start:stop] for a negative start and a non-negative stop.
Slice(x, start, stop) ==
  LET from == IF Len(x) + start < 0 THEN 0 ELSE Len(x) + start
      to   == IF stop > Len(x) THEN Len(x) ELSE stop
  IN SubSeq(x, from + 1, to)

\* sep.join(parts)
RECURSIVE join(_, _)
join(sep, parts) ==
  IF parts = << >> THEN EmptyStr
  ELSE IF Len(parts) = 1 THEN parts[1]
  ELSE parts[1] \o sep \o join(sep, Tail(parts))

\* s.split(c) for a one-character separator c.
RECURSIVE split(_, _)
split(s, c) ==
  IF \A i \in DOMAIN s : s[i] # c THEN <<s>>
  ELSE LET p == CHOOSE i \in DOMAIN s :
                  s[i] = c /\ \A j \in 1..(i - 1) : s[j] # c
       IN <<SubSeq(s, 1, p - 1)>> \o split(Drop(s, p), c)

\* d[k] = v on a dict kept as its sequence of items, k a key of d.
SetItem(d, k, v) == [i \in DOMAIN d |-> IF d[i][1] = k THEN <<k, v>> ELSE d[i]]

\* A float is NaN or a number.
NaN == [nan |-> TRUE, val |-> 0]

Float(v) == [nan |-> FALSE, val |-> v]

AllNaN_NotEmpty(a) == a # << >> /\ \A i \in DOMAIN a : a[i].nan

\* np.all(np.isnan(a)); True for an array without elements.
AllNaN(a) == \A i \in DOMAIN a : a[i].nan

\* a[mask] for a boolean mask of the length of a.
Take(a, mask) ==
  LET idx == SelectSeq([i \in DOMAIN a |-> i], LAMBDA i : mask[i])
  IN [k \in DOMAIN idx |-> a[idx[k]]]

\* np.any(mask)
AnyTrue(mask) == \E i \in DOMAIN mask : mask[i]

-----------------------------------------------------------------------------
(* The Dataset interface the plot methods use.  A dataset is its number of  *)
(* observations, the satellite, system and time arrays, the float fields   *)
(* by full name ("obs.C1C") and the two meta entries that are read.         *)

\* dset.unique(field)
unique(d, field) == Range(d[field])

\* dset.filter(satellite=value) or dset.filter(system=value): a mask.
filter(d, field, value) == [i \in 1..d.num_obs |-> d[field][i] = value]

\* f"{collection}.{field}" if collection else field
FieldName(collection, field) ==
  IF collection # EmptyStr THEN collection \o <<".">> \o field ELSE field

fields_None(d) == {}

\* dset.fields: the names before the first "." of the stored fields.
fields(d) == {split(k, ".")[1] : k \in Keys(d.table)}

\* dset.<collection>.fields: the fields of a collection, in stored order.
CollectionFields(d, collection) ==
  LET keys == [i \in DOMAIN d.table |-> d.table[i][1]]
      sub  == SelectSeq(keys, LAMBDA k : startswith(k, collection \o <<".">>))
  IN [i \in DOMAIN sub |-> Drop(sub[i], Len(collection) + 1)]

\* dset.add_float(name, val=val)
add_float(d, name, val) == [d EXCEPT !.table = @ \o <<<<name, val>>>>]

-----------------------------------------------------------------------------
(* The datasets and environments a GnssPlot object is constructed over.     *)

\* The longest dataset, in observations.
MaxObs == 3

\* The angles are whole multiples of pi / AnglePerPi.
AnglePerPi == 4

C1C == <<"C", "1", "C">>

L1C == <<"L", "1", "C">>

C5Q == <<"C", "5", "Q">>

SysE == <<"E">>

SysG == <<"G">>

SysR == <<"R">>

E11 == <<"E", "1", "1">>

G01 == <<"G", "0", "1">>

G02 == <<"G", "0", "2">>

PlotSatellites == {E11, G01, G02}

\* dset.meta["obstypes"]: the observation types of each system, as read
\* from the header of the observation file.
ObstypesUnsorted == << <<SysG, <<L1C, C1C>>>>, <<SysE, <<C5Q, C1C, L1C>>>> >>

ObstypesSorted == << <<SysG, <<C1C, L1C>>>>, <<SysE, <<C1C, C5Q>>>> >>

ObstypesThree ==
  << <<SysR, <<C1C, L1C>>>>, <<SysG, <<L1C, C1C>>>>, <<SysE, <<L1C, C5Q, C1C>>>> >>

ObstypesDicts == {ObstypesUnsorted, ObstypesSorted, ObstypesThree}

\* dset.lin.fields
LinFields ==
  << <<"m", "e", "l", "b", "o", "u", "r", "n", "e", "_", "w", "u", "e", "b", "b", "e", "n", "a">>, <<"c", "o", "d", "e", "_", "m", "u", "l", "t", "i", "p", "a", "t", "h", "_", "f", "1">>, <<"c", "o", "d", "e", "_", "p", "h", "a", "s", "e", "_", "f", "2">>,
     <<"g", "e", "o", "m", "e", "t", "r", "y", "_", "f", "r", "e", "e", "_", "c", "o", "d", "e">> >>

\* dset.meta["linear_combination"][field]: the observation types each
\* system's combination was formed from.
LinearCombination(field) ==
  IF field = LinFields[1]
  THEN << <<SysE, <<C1C, C5Q, L1C>>>>, <<SysG, <<C1C, L1C>>>>, <<SysR, <<C1C, L1C>>>> >>
  ELSE IF field = LinFields[2]
  THEN << <<SysE, <<C1C, L1C, C5Q>>>>, <<SysG, <<C1C, L1C>>>>, <<SysR, <<C1C, L1C>>>> >>
  ELSE IF field = LinFields[3]
  THEN << <<SysE, <<C5Q, L1C>>>>, <<SysG, <<L1C, C1C>>>>, <<SysR, <<L1C, C1C>>>> >>
  ELSE << <<SysE, <<C1C, C5Q>>>>, <<SysG, <<C1C>>>>, <<SysR, <<C1C, L1C>>>> >>

\* The observations of type C5Q: only Galileo satellites send the signal.
ObsC5Q(sats) == [i \in DOMAIN sats |-> IF sats[i][1] = "E" THEN Float(i) ELSE NaN]

\* The observations of a type, NaN at the epochs where the type is missing.
ObsOf(sats, missing, obstype) ==
  [i \in DOMAIN sats |-> IF obstype \in missing[i] THEN NaN ELSE Float(i)]

\* The array of the numbers values.
Floats(values) == [i \in DOMAIN values |-> Float(values[i])]

\* The azimuth of an observation, negative at the odd epochs.
AzimuthOf(i) == IF i % 2 = 1 THEN 0 - i ELSE i

\* The elevation of an observation, between 0 and pi / 2.
ElevationOf(i) == i % ((AnglePerPi \div 2) + 1)

\* The dataset with the observations of the satellites sats, in order;
\* missing[i] are the observation types without a value at observation i,
\* with_used whether the field num_satellite_used is present.
Dataset(sats, missing, obstypes, with_used) ==
  [ num_obs   |-> Len(sats),
    satellite |-> sats,
    system    |-> [i \in DOMAIN sats |-> <<sats[i][1]>>],
    time      |-> [i \in DOMAIN sats |-> i],
    table     |->
      << <<<<"o", "b", "s", ".", "C", "1", "C">>, ObsOf(sats, missing, C1C)>>,
         <<<<"o", "b", "s", ".", "L", "1", "C">>, ObsOf(sats, missing, L1C)>>,
         <<<<"o", "b", "s", ".", "C", "5", "Q">>, ObsC5Q(sats)>>,
         <<<<"d", "i", "f", "f", "_", "e", "p", "o", ".", "C", "1", "C">>, ObsOf(sats, missing, C1C)>>,
         <<<<"d", "i", "f", "f", "_", "e", "p", "o", ".", "L", "1", "C">>, ObsOf(sats, missing, L1C)>>,
         <<<<"l", "i", "n", ".", "m", "e", "l", "b", "o", "u", "r", "n", "e", "_", "w", "u", "e", "b", "b", "e", "n", "a">>, Floats([i \in DOMAIN sats |-> i + 1])>>,
         <<<<"l", "i", "n", ".", "c", "o", "d", "e", "_", "m", "u", "l", "t", "i", "p", "a", "t", "h", "_", "f", "1">>, Floats([i \in DOMAIN sats |-> i + 2])>>,
         <<<<"l", "i", "n", ".", "c", "o", "d", "e", "_", "p", "h", "a", "s", "e", "_", "f", "2">>, Floats([i \in DOMAIN sats |-> i + 3])>>,
         <<<<"l", "i", "n", ".", "g", "e", "o", "m", "e", "t", "r", "y", "_", "f", "r", "e", "e", "_", "c", "o", "d", "e">>, Floats([i \in DOMAIN sats |-> i + 4])>>,
         <<<<"s", "i", "t", "e", "_", "p", "o", "s", ".", "a", "z", "i", "m", "u", "t", "h">>, Floats([i \in DOMAIN sats |-> AzimuthOf(i)])>>,
         <<<<"s", "i", "t", "e", "_", "p", "o", "s", ".", "e", "l", "e", "v", "a", "t", "i", "o", "n">>, Floats([i \in DOMAIN sats |-> ElevationOf(i)])>>,
         <<<<"s", "i", "t", "e", "_", "p", "o", "s", ".", "z", "e", "n", "i", "t", "h", "_", "d", "i", "s", "t", "a", "n", "c", "e">>,
           Floats([i \in DOMAIN sats |-> (AnglePerPi \div 2) - ElevationOf(i)])>>,
         <<<<"g", "d", "o", "p">>, Floats([i \in DOMAIN sats |-> 5])>>,
         <<<<"p", "d", "o", "p">>, Floats([i \in DOMAIN sats |-> 4])>>,
         <<<<"v", "d", "o", "p">>, Floats([i \in DOMAIN sats |-> 3])>>,
         <<<<"h", "d", "o", "p">>, Floats([i \in DOMAIN sats |-> 2])>>,
         <<<<"t", "d", "o", "p">>, Floats([i \in DOMAIN sats |-> 1])>>,
         <<<<"n", "u", "m", "_", "s", "a", "t", "e", "l", "l", "i", "t", "e", "_", "a", "v", "a", "i", "l", "a", "b", "l", "e">>, Floats([i \in DOMAIN sats |-> 9])>> >>
      \o IF with_used
         THEN << <<<<"n", "u", "m", "_", "s", "a", "t", "e", "l", "l", "i", "t", "e", "_", "u", "s", "e", "d">>, Floats([i \in DOMAIN sats |-> 7])>> >>
         ELSE << >>,
    meta_obstypes |-> obstypes,
    meta_linear_combination |->
      [i \in DOMAIN LinFields |-> <<LinFields[i], LinearCombination(LinFields[i])>>] ]

\* The sequences of fewer than n satellites and the sequences of n
\* different satellites.
SatelliteSeqs(n) ==
  UNION {[1..k -> PlotSatellites] : k \in 1..(n - 1)}
  \cup {s \in [1..n -> PlotSatellites] : \A i, j \in 1..n : s[i] = s[j] => i = j}

\* Two epochs of G01 and one of E11.
MixedSats == <<G01, G01, E11>>

\* No observation type is missing anywhere.
NoneMissing(sats) == [i \in DOMAIN sats |-> {}]

\* The stages whose dataset plot_satellite_overview reads.
Stages == {"read", "orbit", "edit"}

\* A GnssPlot object over a dataset, in an environment.
Setup(d, existing, view) == [dset |-> d, files |-> existing, azimuth_view |-> view]

\* The objects: over the sequences of satellites with complete
\* observations; over one sequence with every pattern of missing values;
\* over one dataset with every meta entry, with and without the field
\* num_satellite_used, azimuth a stored array or not; and over one dataset
\* with every set of stage files.
Setups ==
  { Setup(Dataset(sats, NoneMissing(sats), ObstypesUnsorted, FALSE), Stages, TRUE) :
      sats \in SatelliteSeqs(MaxObs) }
  \cup
  { Setup(Dataset(MixedSats, missing, ObstypesThree, FALSE), Stages, TRUE) :
      missing \in [DOMAIN MixedSats -> {{}, {C1C}, {C1C, L1C}}] }
  \cup
  { Setup(Dataset(MixedSats, NoneMissing(MixedSats), obstypes, with_used), Stages, view) :
      obstypes \in ObstypesDicts, with_used \in BOOLEAN, view \in BOOLEAN }
  \cup
  { Setup(Dataset(MixedSats, NoneMissing(MixedSats), ObstypesUnsorted, FALSE),
          existing, TRUE) :
      existing \in SUBSET Stages }

\* self.figure_dir
figure_dir == <<"f", "i", "g", "s">>

\* FIGURE_FORMAT
FIGURE_FORMAT == <<"p", "n", "g">>

-----------------------------------------------------------------------------
(* The plot methods of GnssPlot.  A method is modelled by what a call of   *)
(* it on the dataset d gives: how it ends, what it returns, the calls of   *)
(* plot() it makes, the dataset it leaves, the warnings it logs and the    *)
(* stage datasets it reads.  Of a call of plot() the figure path, the      *)
(* series and the labels are kept; axis titles and styling are left out.   *)

Result(how, value, plots, d) ==
  [outcome |-> how, returned |-> value, renders |-> plots, dset |-> d,
   warnings |-> 0, reads |-> << >>]

\* An exception leaves the method before its first call of plot().
Raised(d) == Result("raised", << >>, << >>, d)

\* plot(x_arrays=, y_arrays=, labels=, figure_path=, ...)
plot(x_arrays, y_arrays, labels, figure_path) ==
  [figure_path |-> figure_path, x_arrays |-> x_arrays, y_arrays |-> y_arrays,
   labelled |-> TRUE, labels |-> labels]

\* plot(x_arrays=, y_arrays=, figure_path=, ...) where labels is not passed.
plot_unlabelled(x_arrays, y_arrays, figure_path) ==
  [figure_path |-> figure_path, x_arrays |-> x_arrays, y_arrays |-> y_arrays,
   labelled |-> FALSE, labels |-> << >>]

\* self.figure_dir / figure_name.replace("{solution}", solution)
\*                              .replace("{FIGURE_FORMAT}", FIGURE_FORMAT)
FigurePath(figure_name, solution) ==
  figure_dir \o <<"/">>
    \o replace(replace(figure_name, <<"{", "s", "o", "l", "u", "t", "i", "o", "n", "}">>, solution),
               <<"{", "F", "I", "G", "U", "R", "E", "_", "F", "O", "R", "M", "A", "T", "}">>, FIGURE_FORMAT)

Nested_InnerFirst(outer, inner) ==
  [k \in 1..(Len(outer) * Len(inner)) |->
     <<outer[((k - 1) % Len(outer)) + 1], inner[((k - 1) \div Len(outer)) + 1]>>]

\* The loop "for a in outer: for b in inner", as the sequence of its <<a, b>>.
Nested(outer, inner) ==
  [k \in 1..(Len(outer) * Len(inner)) |->
     <<outer[((k - 1) \div Len(inner)) + 1], inner[((k - 1) % Len(inner)) + 1]>>]

SatellitesOf_All(d, sys) == sorted(unique(d, "satellite"))

\* sorted(self.dset.unique("satellite")) without the satellites for which
\* "if not sat.startswith(sys): continue" is taken.
SatellitesOf(d, sys) ==
  SelectSeq(sorted(unique(d, "satellite")), LAMBDA sat : startswith(sat, sys))

\* The call of plot() that ends the loop over the satellites of a system:
\* one series per satellite, the values of x and of y at its observations,
\* the satellite its label.
PlotBySatellite(d, sys, x, y, figure_path) ==
  LET sats == SatellitesOf(d, sys)
  IN plot([i \in DOMAIN sats |-> Take(x, filter(d, "satellite", sats[i]))],
          [i \in DOMAIN sats |-> Take(y, filter(d, "satellite", sats[i]))],
          sats, figure_path)

\* for sys in sorted(self.dset.meta["obstypes"].keys())
MetaSystems(d) == sorted(Keys(d.meta_obstypes))

\* "Skip if nothing to plot": np.all(np.isnan(values[idx_sys]))
NothingToPlot(d, sys, values) == AllNaN(Take(values, filter(d, "system", sys)))

\* plot_field(field, collection) with the default figure_name.
plot_field(d, field, collection) ==
  LET fieldname == FieldName(collection, field)
      plotted == SelectSeq(MetaSystems(d),
                   LAMBDA sys : ~NothingToPlot(d, sys, Get(d.table, fieldname)))
      plots == [i \in DOMAIN plotted |->
                 PlotBySatellite(d, plotted[i], d.time, Get(d.table, fieldname),
                   FigurePath(<<"p", "l", "o", "t", "_", "f", "i", "e", "l", "d", "_", "{", "s", "o", "l", "u", "t", "i", "o", "n", "}", ".", "{", "F", "I", "G", "U", "R", "E", "_", "F", "O", "R", "M", "A", "T", "}">>,
                              plotted[i] \o <<"_">> \o field))]
  IN IF MetaSystems(d) # << >> /\ fieldname \notin Keys(d.table)
     THEN Raised(d)
     ELSE Result("list", [i \in DOMAIN plots |-> plots[i].figure_path], plots, d)

\* plot_epoch_by_epoch_difference() with the default figure_name.
plot_epoch_by_epoch_difference(d) ==
  LET Values(field) == Get(d.table, <<"d", "i", "f", "f", "_", "e", "p", "o", ".">> \o field)
      plotted == SelectSeq(Nested(CollectionFields(d, <<"d", "i", "f", "f", "_", "e", "p", "o">>), MetaSystems(d)),
                   LAMBDA fs : ~NothingToPlot(d, fs[2], Values(fs[1])))
      plots == [i \in DOMAIN plotted |->
                 PlotBySatellite(d, plotted[i][2], d.time, Values(plotted[i][1]),
                   FigurePath(<<"p", "l", "o", "t", "_", "e", "p", "o", "c", "h", "_", "b", "y", "_", "e", "p", "o", "c", "h", "_", "d", "i", "f", "f", "e", "r", "e", "n", "c", "e", "_", "{", "s", "o", "l", "u", "t", "i", "o", "n", "}", ".", "{", "F", "I", "G", "U", "R", "E", "_", "F", "O", "R", "M", "A", "T", "}">>,
                              plotted[i][2] \o <<"_">> \o plotted[i][1]))]
  IN Result("list", [i \in DOMAIN plots |-> plots[i].figure_path], plots, d)

\* where.lib.enums.gnss_id_to_name[sys].value
gnss_id_to_name ==
  << <<SysE, <<"G", "a", "l", "i", "l", "e", "o">>>>, <<SysG, <<"G", "P", "S">>>>, <<SysR, <<"G", "L", "O", "N", "A", "S", "S">>>> >>

\* where.lib.gnss.get_number_of_satellites(system, satellite, time): for
\* each observation the number of satellites observed at its epoch.
get_number_of_satellites(system, satellite, time) ==
  [i \in DOMAIN time |->
     Float(Cardinality({satellite[j] : j \in {k \in DOMAIN time : time[k] = time[i]}}))]

\* np.rad2deg(a)
rad2deg(a) == [i \in DOMAIN a |-> Float((a[i].val * 180) \div AnglePerPi)]

\* for sys in sorted(self.dset.unique("system"))
DataSystems(d) == sorted(unique(d, "system"))

\* plot_dop() with the default figure_name.
plot_dop(d) ==
  LET figure_path == FigurePath(<<"p", "l", "o", "t", "_", "d", "o", "p", ".", "{", "F", "I", "G", "U", "R", "E", "_", "F", "O", "R", "M", "A", "T", "}">>, EmptyStr)
      names == <<<<"g", "d", "o", "p">>, <<"p", "d", "o", "p">>, <<"v", "d", "o", "p">>, <<"h", "d", "o", "p">>, <<"t", "d", "o", "p">>>>
  IN Result("path", <<figure_path>>,
            <<plot([i \in DOMAIN names |-> d.time],
                   [i \in DOMAIN names |-> Get(d.table, names[i])],
                   [i \in DOMAIN names |-> upper(names[i])], figure_path)>>, d)

\* plot_number_of_satellites() with the default figure_name.
plot_number_of_satellites(d) ==
  LET figure_path == FigurePath(<<"p", "l", "o", "t", "_", "g", "n", "s", "s", "_", "n", "u", "m", "b", "e", "r", "_", "o", "f", "_", "s", "a", "t", "e", "l", "l", "i", "t", "e", "s", "_", "e", "p", "o", "c", "h", ".", "p", "n", "g">>, EmptyStr)
      systems == DataSystems(d)
      Idx(sys) == filter(d, "system", sys)
  IN Result("path", <<figure_path>>,
            <<plot([i \in DOMAIN systems |-> Take(d.time, Idx(systems[i]))],
                   [i \in DOMAIN systems |->
                      get_number_of_satellites(Take(d.system, Idx(systems[i])),
                                               Take(d.satellite, Idx(systems[i])),
                                               Take(d.time, Idx(systems[i])))],
                   [i \in DOMAIN systems |-> Get(gnss_id_to_name, systems[i])],
                   figure_path)>>, d)

\* plot_number_of_satellites_used() with the default figure_name.
plot_number_of_satellites_used(d) ==
  LET figure_path == FigurePath(<<"p", "l", "o", "t", "_", "n", "u", "m", "b", "e", "r", "_", "o", "f", "_", "s", "a", "t", "e", "l", "l", "i", "t", "e", "s", "_", "u", "s", "e", "d", ".", "p", "n", "g">>, EmptyStr)
      used == <<"n", "u", "m", "_", "s", "a", "t", "e", "l", "l", "i", "t", "e", "_", "u", "s", "e", "d">>
      after == IF used \notin fields(d)
               THEN add_float(d, used,
                      get_number_of_satellites(d.system, d.satellite, d.time))
               ELSE d
  IN Result("path", <<figure_path>>,
            <<plot(<<after.time, after.time>>,
                   <<Get(after.table, <<"n", "u", "m", "_", "s", "a", "t", "e", "l", "l", "i", "t", "e", "_", "a", "v", "a", "i", "l", "a", "b", "l", "e">>),
                     Get(after.table, used)>>,
                   <<<<"A", "v", "a", "i", "l", "a", "b", "l", "e">>, <<"U", "s", "e", "d">>>>, figure_path)>>, after)

SortKey_Empty(x) == EmptyStr

\* The sort key of _sort_string_array: lambda x: x[-2:3]
SortKey(x) == Slice(x, 0 - 2, 3)

\* _sort_string_array(array): array.sort(key=lambda x: x[-2:3]), a stable
\* sort in place; the value is the list as the sort leaves it.

RECURSIVE sort_string_array(_)
sort_string_array(array) ==
  IF array = << >> THEN << >>
  ELSE LET front == sort_string_array(SubSeq(array, 1, Len(array) - 1))
           last  == array[Len(array)]
           keep  == SelectSeq(front, LAMBDA x : ~StrLess(SortKey(last), SortKey(x)))
       IN keep \o <<last>> \o SubSeq(front, Len(keep) + 1, Len(front))

SetKeepIdx_Accumulate(keep_idx, idx_sat, has_value) ==
  [i \in DOMAIN keep_idx |-> keep_idx[i] \/ (idx_sat[i] /\ has_value[i])]

\* keep_idx[idx_sat] = np.logical_not(np.isnan(self.dset.obs[obstype][idx_sat])):
\* the entries at the satellite's observations are overwritten, the others
\* are left as they are.
SetKeepIdx(keep_idx, idx_sat, has_value) ==
  [i \in DOMAIN keep_idx |-> IF idx_sat[i] THEN has_value[i] ELSE keep_idx[i]]

\* keep_idx after the k-th observation type of the list was processed for
\* the satellite; np.full(self.dset.num_obs, False) before the first.
RECURSIVE KeepIdxAfter(_, _, _, _)
KeepIdxAfter(d, sat, obstypes, k) ==
  IF k = 0 THEN [i \in 1..d.num_obs |-> FALSE]
  ELSE SetKeepIdx(KeepIdxAfter(d, sat, obstypes, k - 1),
                  filter(d, "satellite", sat),
                  [i \in 1..d.num_obs |->
                     ~Get(d.table, <<"o", "b", "s", ".">> \o obstypes[k])[i].nan])

\* The series of one satellite in plot_obstype_availability: for each
\* observation type of the sorted list keep_idx is updated, and a series
\* is added if any entry is set: x the epochs at the set entries, y as many
\* times "<sat>_<obstype>".
ObstypeSeries(d, sat, obstypes) ==
  LET seen == SelectSeq([k \in DOMAIN obstypes |-> k],
                        LAMBDA k : AnyTrue(KeepIdxAfter(d, sat, obstypes, k)))
  IN [i \in DOMAIN seen |->
        [x |-> Take(d.time, KeepIdxAfter(d, sat, obstypes, seen[i])),
         y |-> [n \in DOMAIN Take(d.time, KeepIdxAfter(d, sat, obstypes, seen[i])) |->
                  sat \o <<"_">> \o obstypes[seen[i]]]]]

\* s1 \o s2 \o ... for a sequence of sequences.
RECURSIVE Concat(_)
Concat(ss) == IF ss = << >> THEN << >> ELSE ss[1] \o Concat(Tail(ss))

\* The dataset after the lists meta["obstypes"][sys] of the systems were
\* sorted in place.
RECURSIVE SortObstypes(_, _)
SortObstypes(d, systems) ==
  IF systems = << >> THEN d
  ELSE SortObstypes(
         [d EXCEPT !.meta_obstypes =
            SetItem(@, systems[1], sort_string_array(Get(@, systems[1])))],
         Tail(systems))

\* plot_obstype_availability() with the default figure_name.
plot_obstype_availability(d) ==
  LET systems == DataSystems(d)
      Sats(sys) == SelectSeq(sorted_reverse(unique(d, "satellite")),
                             LAMBDA sat : startswith(sat, sys))
      Series(sys) ==
        Concat([i \in DOMAIN Sats(sys) |->
                  ObstypeSeries(d, Sats(sys)[i],
                                sort_string_array(Get(d.meta_obstypes, sys)))])
      FigureOf(sys) ==
        plot_unlabelled([i \in DOMAIN Series(sys) |-> Series(sys)[i].x],
                        [i \in DOMAIN Series(sys) |-> Series(sys)[i].y],
                        replace(FigurePath(<<"p", "l", "o", "t", "_", "o", "b", "s", "t", "y", "p", "e", "_", "a", "v", "a", "i", "l", "a", "b", "i", "l", "i", "t", "y", "_", "{", "s", "y", "s", "t", "e", "m", "}", ".", "{", "F", "I", "G", "U", "R", "E", "_", "F", "O", "R", "M", "A", "T", "}">>,
                                           EmptyStr), <<"{", "s", "y", "s", "t", "e", "m", "}">>, sys))
      plots == [i \in DOMAIN systems |-> FigureOf(systems[i])]
  IN Result("list", [i \in DOMAIN plots |-> plots[i].figure_path], plots,
            SortObstypes(d, systems))

\* _sort_by_satellite(dset): the time, satellite and system arrays with the
\* observations grouped by satellite, the satellites in descending order.
\* The loop reads self.dset (d); the dataset passed in is bound to a local
\* name that is not used again.
sort_by_satellite(d, passed) ==
  LET sats == sorted_reverse(unique(d, "satellite"))
      Idx(sat) == filter(d, "satellite", sat)
  IN [time      |-> Concat([i \in DOMAIN sats |-> Take(d.time, Idx(sats[i]))]),
      satellite |-> Concat([i \in DOMAIN sats |-> Take(d.satellite, Idx(sats[i]))]),
      system    |-> Concat([i \in DOMAIN sats |-> Take(d.system, Idx(sats[i]))])]

\* plot_satellite_availability() with the default figure_name.
plot_satellite_availability(d) ==
  LET figure_path == FigurePath(<<"p", "l", "o", "t", "_", "s", "a", "t", "e", "l", "l", "i", "t", "e", "_", "a", "v", "a", "i", "l", "a", "b", "i", "l", "i", "t", "y", ".", "p", "n", "g">>, EmptyStr)
      by_sat == sort_by_satellite(d, d)
      systems == sorted_reverse(unique(d, "system"))
      Idx(sys) == [i \in DOMAIN by_sat.system |-> by_sat.system[i] = sys]
  IN Result("path", <<figure_path>>,
            <<plot_unlabelled(
                [i \in DOMAIN systems |-> Take(by_sat.time, Idx(systems[i]))],
                [i \in DOMAIN systems |-> Take(by_sat.satellite, Idx(systems[i]))],
                figure_path)>>, d)

\* plot_skyplot() with the default figure_name.  view tells whether
\* self.dset.site_pos.azimuth is the array the dataset stores, so that the
\* assignment azimuth[idx] = 2 * np.pi + azimuth[idx] changes the dataset,
\* or a fresh array computed at each access.
plot_skyplot(d, view) ==
  LET stored == Get(d.table, <<"s", "i", "t", "e", "_", "p", "o", "s", ".", "a", "z", "i", "m", "u", "t", "h">>)
      azimuth == [i \in DOMAIN stored |->
                    IF stored[i].val < 0
                    THEN Float(2 * AnglePerPi + stored[i].val) ELSE stored[i]]
      zenith_distance == rad2deg(Get(d.table, <<"s", "i", "t", "e", "_", "p", "o", "s", ".", "z", "e", "n", "i", "t", "h", "_", "d", "i", "s", "t", "a", "n", "c", "e">>))
      systems == DataSystems(d)
      plots == [i \in DOMAIN systems |->
                 PlotBySatellite(d, systems[i], azimuth, zenith_distance,
                   replace(FigurePath(<<"p", "l", "o", "t", "_", "s", "k", "y", "p", "l", "o", "t", "_", "{", "s", "y", "s", "t", "e", "m", "}", ".", "{", "F", "I", "G", "U", "R", "E", "_", "F", "O", "R", "M", "A", "T", "}">>, EmptyStr),
                           <<"{", "s", "y", "s", "t", "e", "m", "}">>, systems[i]))]
  IN Result("list", [i \in DOMAIN plots |-> plots[i].figure_path], plots,
            IF view
            THEN [d EXCEPT !.table = SetItem(@, <<"s", "i", "t", "e", "_", "p", "o", "s", ".", "a", "z", "i", "m", "u", "t", "h">>, azimuth)]
            ELSE d)

\* _get_day_limits(): the first and the last epoch of the dataset.
get_day_limits(d) ==
  <<CHOOSE t \in Range(d.time) : \A u \in Range(d.time) : t <= u,
    CHOOSE t \in Range(d.time) : \A u \in Range(d.time) : t >= u>>

\* plot_satellite_elevation() with the default figure_name.
plot_satellite_elevation(d) ==
  LET elevation == rad2deg(Get(d.table, <<"s", "i", "t", "e", "_", "p", "o", "s", ".", "e", "l", "e", "v", "a", "t", "i", "o", "n">>))
      systems == DataSystems(d)
      plots == [i \in DOMAIN systems |->
                 PlotBySatellite(d, systems[i], d.time, elevation,
                   replace(FigurePath(<<"p", "l", "o", "t", "_", "s", "a", "t", "e", "l", "l", "i", "t", "e", "_", "e", "l", "e", "v", "a", "t", "i", "o", "n", "_", "{", "s", "y", "s", "t", "e", "m", "}", ".", "{", "F", "I", "G", "U", "R", "E", "_", "F", "O", "R", "M", "A", "T", "}">>,
                                      EmptyStr),
                           <<"{", "s", "y", "s", "t", "e", "m", "}">>, systems[i]))]
  IN Result("list", [i \in DOMAIN plots |-> plots[i].figure_path], plots, d)

\* dset_out.subset(keep_idx)
subset(d, keep_idx) ==
  [d EXCEPT !.num_obs = Len(Take(d.time, keep_idx)),
            !.satellite = Take(@, keep_idx),
            !.system = Take(@, keep_idx),
            !.time = Take(@, keep_idx),
            !.table = [i \in DOMAIN @ |-> <<@[i][1], Take(@[i][2], keep_idx)>>]]

\* The dataset file of a stage of the analysis whose last stage gave d: the
\* "edit" stage holds the observations of d, the "orbit" stage one more, of
\* G02, and the "read" stage one more again, of E11.
StageDataset(d, stage) ==
  Dataset(d.satellite \o (IF stage = "edit" THEN << >>
                          ELSE IF stage = "orbit" THEN <<G02>>
                          ELSE <<G02, E11>>),
          [i \in 1..(d.num_obs + 2) |-> {}], d.meta_obstypes, FALSE)

\* _get_dataset(stage, systems): the dataset of the stage without the
\* observations of other systems, or the error exit status if the file
\* cannot be read (existing is the set of stages whose file exists).
get_dataset(d, stage, systems, existing) ==
  IF stage \notin existing
  THEN [error |-> TRUE, dset |-> NoDataset]
  ELSE LET dset_out == StageDataset(d, stage)
       IN [error |-> FALSE,
           dset  |-> subset(dset_out,
                            [i \in 1..dset_out.num_obs |->
                               dset_out.system[i] \in systems])]

ReadStageExists_Any(existing) == existing # {}

\* file_path.exists() for the dataset file of the "read" stage.
ReadStageExists(existing) == "read" \in existing

\* plot_satellite_overview() with the default figure_name.
plot_satellite_overview(d, existing) ==
  LET figure_path == FigurePath(<<"p", "l", "o", "t", "_", "s", "a", "t", "e", "l", "l", "i", "t", "e", "_", "o", "v", "e", "r", "v", "i", "e", "w", ".", "{", "F", "I", "G", "U", "R", "E", "_", "F", "O", "R", "M", "A", "T", "}">>, EmptyStr)
      day_limits == get_day_limits(d)
      stages == <<"read", "orbit", "edit">>
      Sorted(stage) ==
        sort_by_satellite(d, get_dataset(d, stage, Keys(d.meta_obstypes), existing))
  IN IF ReadStageExists(existing)
     THEN [Result("path", <<figure_path>>,
                  <<plot_unlabelled([i \in DOMAIN stages |-> Sorted(stages[i]).time],
                                    [i \in DOMAIN stages |-> Sorted(stages[i]).satellite],
                                    figure_path)>>, d)
             EXCEPT !.reads = stages,
                    !.warnings = Cardinality(Range(stages) \ existing)]
     ELSE [Result("None", << >>, << >>, d) EXCEPT !.warnings = 1]

\* The systems the branch of plot_linear_combinations for a field loops over.
LinSystems(d, field) ==
  IF field \in {<<"m", "e", "l", "b", "o", "u", "r", "n", "e", "_", "w", "u", "e", "b", "b", "e", "n", "a">>, <<"c", "o", "d", "e", "_", "m", "u", "l", "t", "i", "p", "a", "t", "h", "_", "f", "1">>, <<"c", "o", "d", "e", "_", "m", "u", "l", "t", "i", "p", "a", "t", "h", "_", "f", "2">>,
                <<"c", "o", "d", "e", "_", "p", "h", "a", "s", "e", "_", "f", "1">>, <<"c", "o", "d", "e", "_", "p", "h", "a", "s", "e", "_", "f", "2">>}
  THEN MetaSystems(d)
  ELSE DataSystems(d)

\* The name of the FigureInfo record of a field.
LinName(field) ==
  IF field = <<"m", "e", "l", "b", "o", "u", "r", "n", "e", "_", "w", "u", "e", "b", "b", "e", "n", "a">> THEN field
  ELSE IF field \in {<<"c", "o", "d", "e", "_", "m", "u", "l", "t", "i", "p", "a", "t", "h", "_", "f", "1">>, <<"c", "o", "d", "e", "_", "m", "u", "l", "t", "i", "p", "a", "t", "h", "_", "f", "2">>,
                     <<"c", "o", "d", "e", "_", "p", "h", "a", "s", "e", "_", "f", "1">>, <<"c", "o", "d", "e", "_", "p", "h", "a", "s", "e", "_", "f", "2">>}
  THEN replace(replace(field, <<"_", "f", "1">>, <<" ">>), <<"_", "f", "2">>, <<" ">>)
  ELSE join(<<"_">>, SubSeq(split(field, "_"), 1, 2))

\* plot_linear_combinations() with the default figure_name.
plot_linear_combinations(d) ==
  LET lin_fields == CollectionFields(d, <<"l", "i", "n">>)
      loop == Concat([i \in DOMAIN lin_fields |->
                        [j \in DOMAIN LinSystems(d, lin_fields[i]) |->
                           <<lin_fields[i], LinSystems(d, lin_fields[i])[j]>>]])
      Obstype(field, sys) == Get(Get(d.meta_linear_combination, field), sys)
      FigureOf(field, sys) ==
        FigurePath(<<"p", "l", "o", "t", "_", "{", "s", "o", "l", "u", "t", "i", "o", "n", "}", ".", "{", "F", "I", "G", "U", "R", "E", "_", "F", "O", "R", "M", "A", "T", "}">>,
                   field \o <<"_">> \o sys \o <<"_">> \o join(<<"_">>, Obstype(field, sys)))
  IN Result("list",
            [i \in DOMAIN loop |->
               [file_path |-> FigureOf(loop[i][1], loop[i][2]),
                name      |-> LinName(loop[i][1]),
                system    |-> loop[i][2],
                obstype   |-> Obstype(loop[i][1], loop[i][2])]],
            [i \in DOMAIN loop |->
               PlotBySatellite(d, loop[i][2], d.time,
                               Get(d.table, <<"l", "i", "n", ".">> \o loop[i][1]),
                               FigureOf(loop[i][1], loop[i][2]))],
            d)

-----------------------------------------------------------------------------
(* The specification of a GnssPlot object: constructed over a dataset, its  *)
(* plot methods are called one after the other, in any order.               *)

\* The fields plot_field is called for, as <<collection, field>>.
FieldArgs ==
  { <<<<"o", "b", "s">>, C1C>>, <<<<"o", "b", "s">>, L1C>>, <<<<"s", "i", "t", "e", "_", "p", "o", "s">>, <<"a", "z", "i", "m", "u", "t", "h">>>>,
    <<EmptyStr, <<"n", "u", "m", "_", "s", "a", "t", "e", "l", "l", "i", "t", "e", "_", "u", "s", "e", "d">>>> }

PlotInit ==
  /\ NoCall
  /\ \E s \in Setups :
       /\ dset = s.dset
       /\ dset0 = s.dset
       /\ files = s.files
       /\ azimuth_view = s.azimuth_view
  /\ method = "none"
  /\ argument = EmptyStr
  /\ outcome = "none"
  /\ returned = << >>
  /\ renders = << >>
  /\ warnings = 0
  /\ reads = << >>

\* A call of the method name with the field argument arg, result its result.
Call(name, arg, result) ==
  /\ method' = name
  /\ argument' = arg
  /\ outcome' = result.outcome
  /\ returned' = result.returned
  /\ renders' = result.renders
  /\ warnings' = result.warnings
  /\ reads' = result.reads
  /\ dset' = result.dset
  /\ UNCHANGED <<dset0, files, azimuth_view>>
  /\ UNCHANGED rowvars

CallPlotDop == Call("plot_dop", EmptyStr, plot_dop(dset))

CallPlotEpochByEpochDifference ==
  Call("plot_epoch_by_epoch_difference", EmptyStr,
       plot_epoch_by_epoch_difference(dset))

CallPlotField ==
  \E a \in FieldArgs :
    Call("plot_field", FieldName(a[1], a[2]), plot_field(dset, a[2], a[1]))

CallPlotLinearCombinations ==
  Call("plot_linear_combinations", EmptyStr, plot_linear_combinations(dset))

CallPlotNumberOfSatellites ==
  Call("plot_number_of_satellites", EmptyStr, plot_number_of_satellites(dset))

CallPlotNumberOfSatellitesUsed ==
  Call("plot_number_of_satellites_used", EmptyStr,
       plot_number_of_satellites_used(dset))

CallPlotObstypeAvailability ==
  Call("plot_obstype_availability", EmptyStr, plot_obstype_availability(dset))

CallPlotSatelliteAvailability ==
  Call("plot_satellite_availability", EmptyStr, plot_satellite_availability(dset))

CallPlotSkyplot ==
  Call("plot_skyplot", EmptyStr, plot_skyplot(dset, azimuth_view))

CallPlotSatelliteElevation ==
  Call("plot_satellite_elevation", EmptyStr, plot_satellite_elevation(dset))

CallPlotSatelliteOverview ==
  Call("plot_satellite_overview", EmptyStr, plot_satellite_overview(dset, files))

PlotNext ==
  \/ CallPlotDop
  \/ CallPlotEpochByEpochDifference
  \/ CallPlotField
  \/ CallPlotLinearCombinations
  \/ CallPlotNumberOfSatellites
  \/ CallPlotNumberOfSatellitesUsed
  \/ CallPlotObstypeAvailability
  \/ CallPlotSatelliteAvailability
  \/ CallPlotSkyplot
  \/ CallPlotSatelliteElevation
  \/ CallPlotSatelliteOverview

PlotSpec == PlotInit /\ [][PlotNext]_vars

-----------------------------------------------------------------------------
(* Claims about the plot methods, checked under PlotSpec.                   *)

\* The last call was a call of the method name and returned.
Called(name) == method = name /\ outcome # "raised"

\* The values the field argument of the last call has in the dataset.
ArgumentValues == Get(dset.table, argument)

\* The system has an observation whose value in the field is not NaN.
HasValue(sys) ==
  \E i \in 1..dset.num_obs : dset.system[i] = sys /\ ~ArgumentValues[i].nan

\* The satellite of a label or of a "<satellite>_<obstype>" value.
SatOf(label) == SubSeq(label, 1, 3)

\* The renders whose series are all of satellites of the system.
RendersOf(sys) ==
  {i \in DOMAIN renders :
     \A k \in DOMAIN renders[i].labels : startswith(renders[i].labels[k], sys)}

\* C11: plot_field makes one figure, and returns its path, for each system
\* of meta["obstypes"] that has a value of the field which is not NaN, and
\* none, and no warning, for a system whose values are all NaN or that has
\* no observation at all.
C11_FieldFigurePerSystemWithValues ==
  Called("plot_field") =>
    /\ Len(returned) = Len(renders)
    /\ \A i \in DOMAIN renders : returned[i] = renders[i].figure_path
    /\ Len(renders) = Cardinality({sys \in Keys(dset.meta_obstypes) : HasValue(sys)})
    /\ \A sys \in Keys(dset.meta_obstypes) :
         Cardinality(RendersOf(sys)) = IF HasValue(sys) THEN 1 ELSE 0
    /\ warnings = 0

\* plot_field made a figure for one system and none for a system whose
\* observations are all NaN in the field and none for a system without
\* observations.
C11_Witness ==
  /\ Called("plot_field")
  /\ Len(renders) = 1
  /\ \E sys \in Keys(dset.meta_obstypes) :
       /\ sys \in unique(dset, "system")
       /\ ~HasValue(sys)
  /\ \E sys \in Keys(dset.meta_obstypes) : sys \notin unique(dset, "system")

Ascending(s) == \A i, j \in DOMAIN s : i < j => ~StrLess(s[j], s[i])

Descending(s) == \A i, j \in DOMAIN s : i < j => ~StrLess(s[i], s[j])

\* The satellites of the series of a call of plot(), in the order of the
\* series: the labels, or without labels the satellite of the y values.
SeriesSatellites(r) ==
  IF r.labelled THEN r.labels
  ELSE [k \in DOMAIN r.y_arrays |-> SatOf(r.y_arrays[k][1])]

\* The system a figure path "..._<sys>.png" ends with.
PathSystem(path) == <<path[Len(path) - 4]>>

\* The last n characters of a path.
PathEnd(path, n) == SubSeq(path, Len(path) + 1 - n, Len(path))

\* The methods that make one figure per system with one series per
\* satellite and pass the satellites as labels.
LabelledBySatellite ==
  {"plot_field", "plot_epoch_by_epoch_difference", "plot_linear_combinations",
   "plot_skyplot", "plot_satellite_elevation"}

\* C13 as stated: plot_obstype_availability, too, appends its series in
\* ascending satellite order.
C13_AllButAvailabilityAscending ==
  (\E name \in LabelledBySatellite \cup {"plot_obstype_availability"} : Called(name))
    => \A i \in DOMAIN renders : Ascending(SeriesSatellites(renders[i]))

\* C13: systems and satellites are enumerated in ascending order, with
\* these exceptions: plot_obstype_availability enumerates its systems in
\* ascending but its satellites in descending order, and
\* plot_satellite_availability and _sort_by_satellite (hence the series of
\* plot_satellite_overview) enumerate in descending order.
C13_EnumerationOrder ==
  /\ (\E name \in LabelledBySatellite : Called(name)) =>
       \A i \in DOMAIN renders : Ascending(renders[i].labels)
  /\ (Called("plot_field") \/ Called("plot_epoch_by_epoch_difference")) =>
       \A i, j \in DOMAIN renders :
         (i < j /\ PathEnd(renders[i].figure_path, 7) = PathEnd(renders[j].figure_path, 7))
           => StrLess(<<renders[i].labels[1][1]>>, <<renders[j].labels[1][1]>>)
  /\ Called("plot_linear_combinations") =>
       \A i, j \in DOMAIN returned :
         (i < j /\ returned[i].name = returned[j].name)
           => StrLess(returned[i].system, returned[j].system)
  /\ (Called("plot_skyplot") \/ Called("plot_satellite_elevation")
        \/ Called("plot_obstype_availability")) =>
       \A i, j \in DOMAIN returned :
         i < j => StrLess(PathSystem(returned[i]), PathSystem(returned[j]))
  /\ Called("plot_number_of_satellites") =>
       renders[1].labels =
         [i \in DOMAIN DataSystems(dset) |-> Get(gnss_id_to_name, DataSystems(dset)[i])]
  /\ Called("plot_obstype_availability") =>
       \A i \in DOMAIN renders : Descending(SeriesSatellites(renders[i]))
  /\ Called("plot_satellite_availability") =>
       /\ \A k \in DOMAIN renders[1].y_arrays : Descending(renders[1].y_arrays[k])
       /\ \A k, l \in DOMAIN renders[1].y_arrays :
            k < l => StrLess(renders[1].y_arrays[l][1], renders[1].y_arrays[k][1])
  /\ Called("plot_satellite_overview") /\ renders # << >> =>
       \A k \in DOMAIN renders[1].y_arrays : Descending(renders[1].y_arrays[k])

\* plot_obstype_availability made a figure whose series are of two
\* satellites.
C13_Witness ==
  /\ Called("plot_obstype_availability")
  /\ \E i \in DOMAIN renders :
       Cardinality(Range(SeriesSatellites(renders[i]))) >= 2

\* A dataset without the field num_satellite_used.
WithoutUsed(d) ==
  [d EXCEPT !.table = SelectSeq(@, LAMBDA item : item[1] # <<"n", "u", "m", "_", "s", "a", "t", "e", "l", "l", "i", "t", "e", "_", "u", "s", "e", "d">>)]

\* C14 as stated: whatever plot methods were called, the dataset is as it
\* was handed to the object, fields, values and meta lists, but for a
\* field num_satellite_used that was added.
C14_DatasetUnchanged ==
  /\ WithoutUsed(dset) = WithoutUsed(dset0)
  /\ <<"n", "u", "m", "_", "s", "a", "t", "e", "l", "l", "i", "t", "e", "_", "u", "s", "e", "d">> \in fields(dset0) => dset = dset0

\* What the last call gives on the dataset d.
ResultOn(d) ==
  CASE method = "plot_dop" -> plot_dop(d)
    [] method = "plot_epoch_by_epoch_difference" -> plot_epoch_by_epoch_difference(d)
    [] method = "plot_field" ->
         LET a == CHOOSE a \in FieldArgs : FieldName(a[1], a[2]) = argument
         IN plot_field(d, a[2], a[1])
    [] method = "plot_linear_combinations" -> plot_linear_combinations(d)
    [] method = "plot_number_of_satellites" -> plot_number_of_satellites(d)
    [] method = "plot_number_of_satellites_used" -> plot_number_of_satellites_used(d)
    [] method = "plot_obstype_availability" -> plot_obstype_availability(d)
    [] method = "plot_satellite_availability" -> plot_satellite_availability(d)
    [] method = "plot_skyplot" -> plot_skyplot(d, azimuth_view)
    [] method = "plot_satellite_elevation" -> plot_satellite_elevation(d)
    [] method = "plot_satellite_overview" -> plot_satellite_overview(d, files)

\* C15 as stated: whatever calls were made before it, a call ends, returns
\* and passes to plot() what the same call gives as the first call on the
\* dataset.
C15_ResultIndependentOfEarlierCalls ==
  method # "none" =>
    /\ outcome = ResultOn(dset0).outcome
    /\ returned = ResultOn(dset0).returned
    /\ renders = ResultOn(dset0).renders

\* The number of fields named num_satellite_used the dataset d stores.
UsedColumns(d) ==
  Cardinality({i \in DOMAIN d.table : d.table[i][1] = <<"n", "u", "m", "_", "s", "a", "t", "e", "l", "l", "i", "t", "e", "_", "u", "s", "e", "d">>})

\* C16: a call of plot_number_of_satellites_used adds the field
\* num_satellite_used if and only if the dataset has none when the call
\* starts, and changes nothing else; no call of any method adds a second
\* one or changes the values of one that is present; and the call makes one
\* call of plot() and returns its figure path.
C16_UsedColumnAddedOnceIfAbsent ==
  [][ /\ method' = "plot_number_of_satellites_used" =>
           /\ IF UsedColumns(dset) = 0
              THEN UsedColumns(dset') = 1 /\ WithoutUsed(dset') = dset
              ELSE dset' = dset
           /\ outcome' = "path"
           /\ Len(renders') = 1
           /\ returned' = <<renders'[1].figure_path>>
      /\ UsedColumns(dset) = 1 =>
           /\ UsedColumns(dset') = 1
           /\ Get(dset'.table, <<"n", "u", "m", "_", "s", "a", "t", "e", "l", "l", "i", "t", "e", "_", "u", "s", "e", "d">>)
                = Get(dset.table, <<"n", "u", "m", "_", "s", "a", "t", "e", "l", "l", "i", "t", "e", "_", "u", "s", "e", "d">>)
    ]_vars

\* plot_number_of_satellites_used returned on a dataset that was handed
\* over without the field and has it now.
C16_Witness ==
  /\ method = "plot_number_of_satellites_used"
  /\ outcome = "path"
  /\ UsedColumns(dset0) = 0
  /\ UsedColumns(dset) = 1

\* The path of the figure of plot_epoch_by_epoch_difference for a system
\* and a field.
EpochPath(sys, field) ==
  <<"f", "i", "g", "s", "/", "p", "l", "o", "t", "_", "e", "p", "o", "c", "h", "_", "b", "y", "_", "e", "p", "o", "c", "h", "_", "d", "i", "f", "f", "e", "r", "e", "n", "c", "e", "_">> \o sys \o <<"_">> \o field \o <<".", "p", "n", "g">>

\* The fields of diff_epo and the systems of meta["obstypes"] for which
\* some observation of the system has a value of the field.
EpochFigures ==
  {fs \in Range(CollectionFields(dset, <<"d", "i", "f", "f", "_", "e", "p", "o">>)) \X Keys(dset.meta_obstypes) :
     \E i \in 1..dset.num_obs :
       /\ dset.system[i] = fs[2]
       /\ ~Get(dset.table, <<"d", "i", "f", "f", "_", "e", "p", "o", ".">> \o fs[1])[i].nan}

\* The field and system whose figure has the path.
EpochFigureOf(path) == CHOOSE fs \in EpochFigures : EpochPath(fs[2], fs[1]) = path

\* C17: plot_epoch_by_epoch_difference makes one figure for each field of
\* diff_epo and each system of meta["obstypes"] whose values of the field
\* are not all NaN, named "<sys>_<field>" in place of {solution} with the
\* extension png, and returns the paths in the order of the fields and,
\* within a field, in ascending order of the systems.
C17_EpochDifferenceFigures ==
  Called("plot_epoch_by_epoch_difference") =>
    /\ Len(returned) = Len(renders)
    /\ \A i \in DOMAIN renders : returned[i] = renders[i].figure_path
    /\ Range(returned) = {EpochPath(fs[2], fs[1]) : fs \in EpochFigures}
    /\ Len(returned) = Cardinality(EpochFigures)
    /\ \A i, j \in DOMAIN returned :
         i < j =>
           LET a == EpochFigureOf(returned[i])
               b == EpochFigureOf(returned[j])
               fields_ == CollectionFields(dset, <<"d", "i", "f", "f", "_", "e", "p", "o">>)
           IN \/ IndexOf(fields_, a[1]) < IndexOf(fields_, b[1])
              \/ a[1] = b[1] /\ StrLess(a[2], b[2])

\* plot_epoch_by_epoch_difference made figures for two fields and left out
\* a system that has observations, all NaN in one field.
C17_Witness ==
  /\ Called("plot_epoch_by_epoch_difference")
  /\ Len(returned) = 3
  /\ Cardinality(unique(dset, "system")) = 2
  /\ \E fs \in (Range(CollectionFields(dset, <<"d", "i", "f", "f", "_", "e", "p", "o">>)) \X unique(dset, "system")) :
       fs \notin EpochFigures

\* The path of the figure of plot_linear_combinations for a field and a
\* system.
LinPath(field, sys) ==
  <<"f", "i", "g", "s", "/", "p", "l", "o", "t", "_">> \o field \o <<"_">> \o sys \o <<"_">>
    \o join(<<"_">>, Get(Get(dset.meta_linear_combination, field), sys)) \o <<".", "p", "n", "g">>

\* The field without its last three characters, "_f1" or "_f2".
WithoutSuffix(field) == SubSeq(field, 1, Len(field) - 3)

\* The name C18 gives for the record of a field.
NameAsStated(field) ==
  IF field = <<"m", "e", "l", "b", "o", "u", "r", "n", "e", "_", "w", "u", "e", "b", "b", "e", "n", "a">> THEN field
  ELSE IF startswith(field, <<"c", "o", "d", "e", "_", "m", "u", "l", "t", "i", "p", "a", "t", "h">>) \/ startswith(field, <<"c", "o", "d", "e", "_", "p", "h", "a", "s", "e">>)
  THEN WithoutSuffix(field)
  ELSE LET words == split(field, "_") IN words[1] \o <<"_">> \o words[2]

FigureSystem(path) ==
  CHOOSE sys \in {SysE, SysG, SysR} :
    \E p \in 2..(Len(path) - 1) :
      path[p - 1] = "_" /\ path[p] = sys[1] /\ path[p + 1] \in {"_", "."}

\* The satellites of the dataset whose name starts with the system code.
SystemSatellites(sys) == {sat \in unique(dset, "satellite") : startswith(sat, sys)}

\* The number of observations of a satellite.
CountOf(sat) == Cardinality({i \in 1..dset.num_obs : dset.satellite[i] = sat})

\* The call of plot() has one labelled series for each satellite of the
\* figure's system and no other, with as many x and y values as the
\* satellite has observations.
OneSeriesPerSatellite(r) ==
  /\ r.labelled
  /\ Len(r.labels) = Len(r.x_arrays)
  /\ Len(r.labels) = Len(r.y_arrays)
  /\ Range(r.labels) = SystemSatellites(FigureSystem(r.figure_path))
  /\ Len(r.labels) = Cardinality(Range(r.labels))
  /\ \A k \in DOMAIN r.labels :
       /\ Len(r.x_arrays[k]) = CountOf(r.labels[k])
       /\ Len(r.y_arrays[k]) = CountOf(r.labels[k])

\* C19 as stated: the figures of plot_obstype_availability, too, have one
\* labelled series for each satellite of the system.
C19_OneSeriesPerSatelliteInAll ==
  (\E name \in LabelledBySatellite \cup {"plot_obstype_availability"} : Called(name))
    => \A i \in DOMAIN renders : OneSeriesPerSatellite(renders[i])

\* The epochs at which the satellite has a value of the observation type.
EpochsWith(sat, obstype) ==
  {dset.time[i] : i \in {j \in 1..dset.num_obs :
                           /\ dset.satellite[j] = sat
                           /\ ~Get(dset.table, <<"o", "b", "s", ".">> \o obstype)[j].nan}}

\* C19: in the figures of plot_field, plot_epoch_by_epoch_difference,
\* plot_linear_combinations, plot_skyplot and plot_satellite_elevation the
\* series are those of the satellites of the system, one labelled series
\* each, labels, x and y arrays of equal length and in matching positions.
\* plot_obstype_availability passes no labels: it has one series for each
\* satellite of the system and each observation type of the system of which
\* the satellite has a value, x the epochs with a value and y as many times
\* "<satellite>_<obstype>".
C19_SeriesOfAFigure ==
  /\ (\E name \in LabelledBySatellite : Called(name)) =>
       \A i \in DOMAIN renders :
         /\ OneSeriesPerSatellite(renders[i])
         /\ method \notin {"plot_skyplot"} =>
              \A k \in DOMAIN renders[i].labels :
                Range(renders[i].x_arrays[k])
                  = {dset.time[j] : j \in {n \in 1..dset.num_obs :
                                             dset.satellite[n] = renders[i].labels[k]}}
  /\ Called("plot_obstype_availability") =>
       \A i \in DOMAIN renders :
         LET r == renders[i]
             sys == FigureSystem(r.figure_path)
             pairs == {so \in SystemSatellites(sys) \X Range(Get(dset.meta_obstypes, sys)) :
                         EpochsWith(so[1], so[2]) # {}}
         IN /\ ~r.labelled
            /\ Len(r.x_arrays) = Len(r.y_arrays)
            /\ Len(r.x_arrays) = Cardinality(pairs)
            /\ \A so \in pairs :
                 \E k \in DOMAIN r.y_arrays :
                   /\ Range(r.y_arrays[k]) = {so[1] \o <<"_">> \o so[2]}
                   /\ Range(r.x_arrays[k]) = EpochsWith(so[1], so[2])
                   /\ Len(r.x_arrays[k]) = Len(r.y_arrays[k])
                   /\ Len(r.x_arrays[k]) = Cardinality(EpochsWith(so[1], so[2]))

\* plot_obstype_availability made a figure with more series than the
\* system has satellites.
C19_Witness ==
  /\ Called("plot_obstype_availability")
  /\ \E i \in DOMAIN renders :
       Len(renders[i].x_arrays)
         > Cardinality(SystemSatellites(FigureSystem(renders[i].figure_path)))

\* The last two characters of a code of three characters.
LastTwo(x) == SubSeq(x, 2, 3)

\* C20 as stated: _sort_string_array returns the list in its input order,
\* so the lists of meta["obstypes"] are as they were handed over, and the
\* key of every code is empty.
C20_SortKeepsInputOrder ==
  Called("plot_obstype_availability") =>
    \A sys \in unique(dset, "system") :
      /\ Get(dset.meta_obstypes, sys) = Get(dset0.meta_obstypes, sys)
      /\ \A x \in Range(Get(dset0.meta_obstypes, sys)) : SortKey(x) = EmptyStr

\* C20: for codes of three characters the key x[-2:3] is the last two
\* characters, and _sort_string_array sorts the list by them, ascending and
\* stable: after plot_obstype_availability the list of each system with
\* observations holds the codes it held, ordered by their last two
\* characters, codes with the same two in their input order.
C20_SortedByLastTwoCharacters ==
  Called("plot_obstype_availability") =>
    \A sys \in unique(dset, "system") :
      LET in  == Get(dset0.meta_obstypes, sys)
          out == Get(dset.meta_obstypes, sys)
      IN /\ Len(out) = Len(in)
         /\ Range(out) = Range(in)
         /\ \A x \in Range(in) : SortKey(x) = LastTwo(x)
         /\ \A i, j \in DOMAIN out :
              i < j =>
                /\ ~StrLess(LastTwo(out[j]), LastTwo(out[i]))
                /\ LastTwo(out[i]) = LastTwo(out[j])
                     => IndexOf(in, out[i]) < IndexOf(in, out[j])

\* plot_obstype_availability left a list of meta["obstypes"] in another
\* order than it was handed over.
C20_Witness ==
  /\ Called("plot_obstype_availability")
  /\ \E sys \in unique(dset, "system") :
       Get(dset.meta_obstypes, sys) # Get(dset0.meta_obstypes, sys)

\* The epochs, in the order of the dataset, of the observations of the
\* satellite that have a value of the observation type.
EpochSeq(sat, obstype) ==
  LET rows == SelectSeq([i \in 1..dset.num_obs |-> i],
                LAMBDA i : /\ dset.satellite[i] = sat
                           /\ ~Get(dset.table, <<"o", "b", "s", ".">> \o obstype)[i].nan)
  IN [k \in DOMAIN rows |-> dset.time[rows[k]]]

\* The figure of plot_obstype_availability for the system.
AvailabilityPath(sys) == <<"f", "i", "g", "s", "/", "p", "l", "o", "t", "_", "o", "b", "s", "t", "y", "p", "e", "_", "a", "v", "a", "i", "l", "a", "b", "i", "l", "i", "t", "y", "_">> \o sys \o <<".", "p", "n", "g">>

\* C21: plot_obstype_availability returns one figure path and makes one
\* call of plot() for each system of dset.unique("system"), also for a
\* system without any series; the figure of a system has a series with the
\* y values "<sat>_<obstype>" if and only if the satellite has a value of
\* the observation type that is not NaN, and the x values of the series are
\* the epochs of that satellite's observations with a value, no other.
C21_ObstypeAvailabilitySeries ==
  Called("plot_obstype_availability") =>
    /\ Len(returned) = Cardinality(unique(dset, "system"))
    /\ Len(renders) = Len(returned)
    /\ \A i \in DOMAIN renders : renders[i].figure_path = returned[i]
    /\ Range(returned) = {AvailabilityPath(sys) : sys \in unique(dset, "system")}
    /\ \A sys \in unique(dset, "system") :
         \A i \in DOMAIN renders :
           renders[i].figure_path = AvailabilityPath(sys) =>
             /\ Len(renders[i].x_arrays) = Len(renders[i].y_arrays)
             /\ \A sat \in SystemSatellites(sys) :
                  \A obstype \in Range(Get(dset.meta_obstypes, sys)) :
                    LET series == {k \in DOMAIN renders[i].y_arrays :
                                     (sat \o <<"_">> \o obstype) \in Range(renders[i].y_arrays[k])}
                    IN IF EpochSeq(sat, obstype) = << >>
                       THEN series = {}
                       ELSE /\ Cardinality(series) = 1
                            /\ \A k \in series :
                                 /\ renders[i].x_arrays[k] = EpochSeq(sat, obstype)
                                 /\ renders[i].y_arrays[k]
                                      = [n \in DOMAIN EpochSeq(sat, obstype) |->
                                           sat \o <<"_">> \o obstype]
             /\ \A k \in DOMAIN renders[i].y_arrays :
                  \E sat \in SystemSatellites(sys) :
                    \E obstype \in Range(Get(dset.meta_obstypes, sys)) :
                      (sat \o <<"_">> \o obstype) \in Range(renders[i].y_arrays[k])

\* plot_obstype_availability made a figure without a series for one
\* system and a figure with series for another.
C21_Witness ==
  /\ Called("plot_obstype_availability")
  /\ \E i, j \in DOMAIN renders :
       /\ renders[i].x_arrays = << >>
       /\ renders[j].x_arrays # << >>

\* How often the value occurs in the sequence.
Occurrences(s, value) == Cardinality({i \in DOMAIN s : s[i] = value})

\* The stages in the order of the series of plot_satellite_overview.
OverviewStages == <<"read", "orbit", "edit">>

\* C22 as stated: with the "read" file present, the k-th series of
\* plot_satellite_overview holds the observations of the dataset of the
\* k-th stage, "read", "orbit" and "edit", each observation once, ordered
\* by descending satellite.
C22_OverviewSeriesFromStageDatasets ==
  (Called("plot_satellite_overview") /\ outcome = "path") =>
    \A k \in DOMAIN OverviewStages :
      OverviewStages[k] \in files =>
        LET passed == get_dataset(dset, OverviewStages[k],
                                  Keys(dset.meta_obstypes), files).dset
            x == renders[1].x_arrays[k]
            y == renders[1].y_arrays[k]
        IN /\ Len(y) = passed.num_obs
           /\ Len(x) = passed.num_obs
           /\ Descending(y)
           /\ \A sat \in Range(passed.satellite) \cup Range(y) :
                Occurrences(y, sat) = Occurrences(passed.satellite, sat)
           /\ \A n \in DOMAIN y :
                \E i \in 1..passed.num_obs :
                  passed.satellite[i] = y[n] /\ passed.time[i] = x[n]

\* The systems for which plot_linear_combinations made a figure of the
\* field.
LinFigureSystems(field) ==
  {returned[i].system : i \in {j \in DOMAIN returned :
     startswith(returned[j].file_path, <<"f", "i", "g", "s", "/", "p", "l", "o", "t", "_">> \o field \o <<"_">>)}}

\* C23 as stated: in one call of plot_linear_combinations every field of
\* lin.fields gets figures for the same systems, whatever its branch.
C23_SameSystemsForEveryField ==
  Called("plot_linear_combinations") =>
    \A f, g \in Range(CollectionFields(dset, <<"l", "i", "n">>)) :
      LinFigureSystems(f) = LinFigureSystems(g)

=============================================================================
